---------------------------- MODULE Spec2Model ----------------------------
(***************************************************************************)
(* Model of the investment-modelling calculation engine                    *)
(* (src/src/utils/financialCalculations.ts, class FinancialCalculator).    *)
(*                                                                         *)
(* Numbers.  A JavaScript number is modelled as an exact extended          *)
(* rational <<n, d>> in lowest terms with d >= 0:                          *)
(*     d > 0        the finite value n/d                                   *)
(*     <<1, 0>>     +Infinity        <<-1, 0>>   -Infinity                 *)
(*     <<0, 0>>     NaN                                                    *)
(* Arithmetic follows IEEE-754's rules for the special values (x/0, 0/0,   *)
(* Inf-Inf, comparisons with NaN are false) and is exact on finite values: *)
(* the rounding of binary doubles and the sign of zero are not modelled.   *)
(* A JavaScript array is a sequence; index k of the code is k+1 here.      *)
(***************************************************************************)
EXTENDS Integers, Sequences, FiniteSets, TLC

VARIABLES
    params,      \* the ProjectParameters handed to calculateMetrics
    outcome,     \* what the call of calculateMetrics produced, or NoCall
    flows,       \* argument cashFlows of the functions called directly
    rateArg,     \* argument discountRate of calculateNPV
    npvCall,     \* outcome of calculateNPV(flows, rateArg), or NoCall
    paybackCall, \* outcome of calculatePaybackPeriod(flows), or NoCall
    irrFlows,    \* calculateIRR: argument cashFlows
    irrPc,       \* calculateIRR: "idle", "loop" (line 15) or "done" (line 29)
    irrI,        \* calculateIRR: loop counter i
    irrRate,     \* calculateIRR: local rate
    irrExit,     \* calculateIRR: how the loop was left
    heap,        \* the array objects allocated so far; heap[a] is array a
    scenarioCall,   \* outcome of calculateScenarioAnalysis(params), or NoCall
    reportsCall,    \* outcome of generateFinancialReports(params), or NoCall
    iterations,     \* argument iterations of runMonteCarloSimulation
    randoms,        \* the values Math.random() returned during that call
    monteCarloCall, \* outcome of runMonteCarloSimulation, or NoCall
    app,            \* App: its state activeTab, parameters, metrics, scenarios
    form,           \* ParametersForm: its state while mounted, or Unmounted
    simulation,     \* MonteCarloSimulation: its state while mounted, or Unmounted
    pendingRuns     \* runSimulation calls waiting on their timer, oldest first

vars == <<params, outcome, flows, rateArg, npvCall, paybackCall,
          irrFlows, irrPc, irrI, irrRate, irrExit,
          heap, scenarioCall, reportsCall, iterations, randoms, monteCarloCall,
          app, form, simulation, pendingRuns>>

metricVars == <<params, outcome>>
flowVars == <<flows, rateArg, npvCall, paybackCall>>
irrVars == <<irrFlows, irrPc, irrI, irrRate, irrExit>>
monteCarloVars == <<iterations, randoms, monteCarloCall>>
entryVars == <<heap, scenarioCall, reportsCall, monteCarloVars>>
appVars == <<app, form, simulation, pendingRuns>>

NoCall == [status |-> "none"]

-----------------------------------------------------------------------------
(* JavaScript numbers                                                      *)

AbsInt(x) == IF x < 0 THEN -x ELSE x

SgnInt(x) == IF x < 0 THEN -1 ELSE IF x > 0 THEN 1 ELSE 0

RECURSIVE GCD(_, _)
GCD(a, b) == IF b = 0 THEN a ELSE GCD(b, a % b)

\* The number n/d, in lowest terms; d = 0 gives Infinity, -Infinity or NaN.
Q(n, d) ==
    IF d = 0 THEN <<SgnInt(n), 0>>
    ELSE LET g == GCD(AbsInt(n), AbsInt(d))
             s == IF d < 0 THEN -1 ELSE 1
         IN  <<s * (n \div g), s * (d \div g)>>

Num(i) == <<i, 1>>

Zero == Num(0)

NaN == <<0, 0>>

IsNaN(x) == x = NaN

IsFinite(x) == x[2] # 0

\* a + b
Add(a, b) ==
    IF IsNaN(a) \/ IsNaN(b) THEN NaN
    ELSE IF ~IsFinite(a) THEN (IF ~IsFinite(b) /\ b # a THEN NaN ELSE a)
    ELSE IF ~IsFinite(b) THEN b
    ELSE LET g == GCD(a[2], b[2])
         IN  Q(a[1] * (b[2] \div g) + b[1] * (a[2] \div g), (a[2] \div g) * b[2])

\* -a
Neg(a) == <<-a[1], a[2]>>

\* a - b
Sub(a, b) == Add(a, Neg(b))

\* a * b
Mul(a, b) ==
    IF ~IsFinite(a) \/ ~IsFinite(b) THEN <<SgnInt(a[1]) * SgnInt(b[1]), 0>>
    ELSE LET g1 == GCD(AbsInt(a[1]), b[2])
             g2 == GCD(AbsInt(b[1]), a[2])
         IN  <<(a[1] \div g1) * (b[1] \div g2), (a[2] \div g2) * (b[2] \div g1)>>

\* a / b
Div(a, b) ==
    IF IsNaN(a) \/ IsNaN(b) THEN NaN
    ELSE IF ~IsFinite(b) THEN (IF ~IsFinite(a) THEN NaN ELSE Zero)
    ELSE IF b[1] = 0 THEN <<SgnInt(a[1]), 0>>
    ELSE IF ~IsFinite(a) THEN <<a[1] * SgnInt(b[1]), 0>>
    ELSE Mul(a, <<SgnInt(b[1]) * b[2], AbsInt(b[1])>>)

\* n1/d1 < n2/d2 for non-negative fractions, by their continued fractions.
RECURSIVE LtFraction(_, _, _, _)
LtFraction(n1, d1, n2, d2) ==
    LET q1 == n1 \div d1
        q2 == n2 \div d2
        r1 == n1 % d1
        r2 == n2 % d2
    IN  IF q1 # q2 THEN q1 < q2
        ELSE IF r2 = 0 THEN FALSE
        ELSE IF r1 = 0 THEN TRUE
        ELSE LtFraction(d2, r2, d1, r1)

\* a < b (false when either is NaN)
Lt(a, b) ==
    /\ ~IsNaN(a)
    /\ ~IsNaN(b)
    /\ IF ~IsFinite(a) \/ ~IsFinite(b)
       THEN (IF ~IsFinite(a) /\ ~IsFinite(b) THEN a[1] < b[1]
             ELSE IF ~IsFinite(a) THEN a[1] < 0 ELSE b[1] > 0)
       ELSE IF a[1] < 0 /\ b[1] >= 0 THEN TRUE
       ELSE IF a[1] >= 0 /\ b[1] < 0 THEN FALSE
       ELSE IF a[1] >= 0 THEN LtFraction(a[1], a[2], b[1], b[2])
       ELSE LtFraction(-b[1], b[2], -a[1], a[2])

\* a >= b (false when either is NaN)
Ge(a, b) == ~IsNaN(a) /\ ~IsNaN(b) /\ ~Lt(a, b)

\* a > b
Gt(a, b) == Lt(b, a)

\* a <= b
Le(a, b) == Ge(b, a)

\* a === b
StrictEq(a, b) == ~IsNaN(a) /\ a = b

\* Math.abs(a)
MathAbs(a) == <<AbsInt(a[1]), a[2]>>

\* Mutant of MathPow: the power 0 of a base is the base.
RECURSIVE MathPow_BaseAtZero(_, _)
MathPow_BaseAtZero(base, k) ==
    IF k = 0 THEN base ELSE Mul(MathPow_BaseAtZero(base, k - 1), base)

\* Math.pow(base, k) for an array index k: 1 when k = 0, whatever the base.
RECURSIVE MathPow(_, _)
MathPow(base, k) == IF k = 0 THEN Num(1) ELSE Mul(MathPow(base, k - 1), base)

\* x || 0 : the falsy numbers are 0 and NaN.
OrZero(x) == IF IsNaN(x) \/ x = Zero THEN Zero ELSE x

\* Mutant of ElemOrZero: beyond the array the last entry is repeated.
ElemOrZero_RepeatLast(arr, k) ==
    IF k + 1 \in 1..Len(arr) THEN OrZero(arr[k + 1])
    ELSE IF Len(arr) = 0 THEN Zero ELSE OrZero(arr[Len(arr)])

\* arr[k] || 0 for a 0-based index k; arr[k] is undefined beyond the array.
ElemOrZero(arr, k) == IF k + 1 \in 1..Len(arr) THEN OrZero(arr[k + 1]) ELSE Zero

\* arr.reduce((sum, x) => sum + x, 0)
RECURSIVE SumUpTo(_, _)
SumUpTo(arr, n) == IF n = 0 THEN Zero ELSE Add(SumUpTo(arr, n - 1), arr[n])

ReduceSum(arr) == SumUpTo(arr, Len(arr))

-----------------------------------------------------------------------------
(* FinancialCalculator                                                     *)

\* calculateNPV's reduce over the first n entries, from the initial value 0.
RECURSIVE NPVUpTo(_, _, _)
NPVUpTo(cashFlows, discountRate, n) ==
    IF n = 0 THEN Zero
    ELSE Add(NPVUpTo(cashFlows, discountRate, n - 1),
             Div(cashFlows[n], MathPow(Add(Num(1), discountRate), n - 1)))

\* Mutant of calculateNPV: the base of the power is the rate, not 1 + rate.
RECURSIVE NPVUpTo_RateAsBase(_, _, _)
NPVUpTo_RateAsBase(cashFlows, discountRate, n) ==
    IF n = 0 THEN Zero
    ELSE Add(NPVUpTo_RateAsBase(cashFlows, discountRate, n - 1),
             Div(cashFlows[n], MathPow(discountRate, n - 1)))

calculateNPV_RateAsBase(cashFlows, discountRate) ==
    NPVUpTo_RateAsBase(cashFlows, discountRate, Len(cashFlows))

calculateNPV(cashFlows, discountRate) ==
    NPVUpTo(cashFlows, discountRate, Len(cashFlows))

\* calculateIRR's derivative: the reduce over the first n entries.
RECURSIVE DerivativeUpTo(_, _, _)
DerivativeUpTo(cashFlows, rate, n) ==
    IF n = 0 THEN Zero
    ELSE Sub(DerivativeUpTo(cashFlows, rate, n - 1),
             Div(Mul(Num(n - 1), cashFlows[n]),
                 MathPow(Add(Num(1), rate), n)))

Derivative(cashFlows, rate) == DerivativeUpTo(cashFlows, rate, Len(cashFlows))

\* Mutant of PaybackFrom: the interpolation starts from i instead of i - 1.
RECURSIVE PaybackFrom_FromCrossingYear(_, _, _)
PaybackFrom_FromCrossingYear(cashFlows, i, cumulativeBefore) ==
    IF i >= Len(cashFlows) THEN Num(Len(cashFlows))
    ELSE LET cumulativeCashFlow == Add(cumulativeBefore, cashFlows[i + 1])
         IN  IF Ge(cumulativeCashFlow, Zero)
             THEN IF i = 0 THEN Zero
                  ELSE LET previousCumulative ==
                               Sub(cumulativeCashFlow, cashFlows[i + 1])
                       IN  Add(Num(i),
                               Div(MathAbs(previousCumulative), cashFlows[i + 1]))
             ELSE PaybackFrom_FromCrossingYear(cashFlows, i + 1, cumulativeCashFlow)

\* calculatePaybackPeriod's loop from index i with the running sum so far.
RECURSIVE PaybackFrom(_, _, _)
PaybackFrom(cashFlows, i, cumulativeBefore) ==
    IF i >= Len(cashFlows) THEN Num(Len(cashFlows))
    ELSE LET cumulativeCashFlow == Add(cumulativeBefore, cashFlows[i + 1])
         IN  IF Ge(cumulativeCashFlow, Zero)
             THEN IF i = 0 THEN Zero
                  ELSE LET previousCumulative ==
                               Sub(cumulativeCashFlow, cashFlows[i + 1])
                       IN  Add(Num(i - 1),
                               Div(MathAbs(previousCumulative), cashFlows[i + 1]))
             ELSE PaybackFrom(cashFlows, i + 1, cumulativeCashFlow)

\* Mutant of calculatePaybackPeriod: the scan skips the initial outlay.
calculatePaybackPeriod_SkipOutlay(cashFlows) == PaybackFrom(cashFlows, 1, Zero)

calculatePaybackPeriod(cashFlows) == PaybackFrom(cashFlows, 0, Zero)

calculateROI(totalGains, initialInvestment) ==
    IF StrictEq(initialInvestment, Zero) THEN Zero
    ELSE Mul(Div(totalGains, initialInvestment), Num(100))

calculateEBITDAMargin(ebitda, revenue) ==
    IF StrictEq(revenue, Zero) THEN Zero
    ELSE Mul(Div(ebitda, revenue), Num(100))

\* Mutant of YearFreeCashFlow: a loss is taxed too (a negative tax).
YearFreeCashFlow_TaxOnLoss(p, year) ==
    LET revenue == ElemOrZero(p.annualRevenues, year - 1)
        operatingCost == ElemOrZero(p.operatingCosts, year - 1)
        depreciation == Mul(p.initialInvestment, p.depreciationRate)
        ebit == Sub(Sub(revenue, operatingCost), depreciation)
        tax == Mul(ebit, p.taxRate)
        nopat == Sub(ebit, tax)
    IN  Add(nopat, depreciation)

\* The body of calculateFreeCashFlows's loop: the free cash flow of one year.
YearFreeCashFlow(p, year) ==
    LET revenue == ElemOrZero(p.annualRevenues, year - 1)
        operatingCost == ElemOrZero(p.operatingCosts, year - 1)
        depreciation == Mul(p.initialInvestment, p.depreciationRate)
        ebit == Sub(Sub(revenue, operatingCost), depreciation)
        tax == IF Gt(ebit, Zero) THEN Mul(ebit, p.taxRate) ELSE Zero
        nopat == Sub(ebit, tax)
    IN  Add(nopat, depreciation)

\* Mutant of calculateFreeCashFlows: the terminal recovery is added to entry 0.
calculateFreeCashFlows_RecoveryAtStart(p) ==
    LET years == IF p.projectTimeline >= 1 THEN p.projectTimeline ELSE 0
        cashFlows == [k \in 1..(years + 1) |->
                         IF k = 1
                         THEN Sub(Neg(p.initialInvestment), p.workingCapital)
                         ELSE YearFreeCashFlow(p, k - 1)]
    IN  [cashFlows EXCEPT ![1] =
            Add(cashFlows[1], Add(p.terminalValue, p.workingCapital))]

calculateFreeCashFlows(p) ==
    LET years == IF p.projectTimeline >= 1 THEN p.projectTimeline ELSE 0
        cashFlows == [k \in 1..(years + 1) |->
                         IF k = 1
                         THEN Sub(Neg(p.initialInvestment), p.workingCapital)
                         ELSE YearFreeCashFlow(p, k - 1)]
        last == Len(cashFlows)
    IN  [cashFlows EXCEPT ![last] =
            Add(cashFlows[last], Add(p.terminalValue, p.workingCapital))]

\* Mutant of CumulativeUpTo: the previous flow is added, not the accumulator.
CumulativeUpTo_PreviousFlow(freeCashFlows, n) ==
    [k \in 1..n |->
        Add(IF k = 1 THEN Zero ELSE OrZero(freeCashFlows[k - 1]), freeCashFlows[k])]

\* calculateMetrics's reduce building cumulativeCashFlows: the first n entries.
RECURSIVE CumulativeUpTo(_, _)
CumulativeUpTo(freeCashFlows, n) ==
    IF n = 0 THEN <<>>
    ELSE LET acc == CumulativeUpTo(freeCashFlows, n - 1)
             before == IF n = 1 THEN Zero ELSE OrZero(acc[n - 1])
         IN  Append(acc, Add(before, freeCashFlows[n]))

\* The value calculateIRR(cashFlows) inside a metrics record.  Newton's
\* iterates in exact arithmetic outgrow machine integers after a few steps, so
\* a record carries the application itself; the solver is the IRR actions below.
IRRValue(cashFlows) == [fn |-> "calculateIRR", cashFlows |-> cashFlows]

calculateMetrics(p) ==
    LET freeCashFlows == calculateFreeCashFlows(p)
        totalRevenue == ReduceSum(p.annualRevenues)
        totalCosts == ReduceSum(p.operatingCosts)
        totalGains == Sub(Sub(totalRevenue, totalCosts), p.initialInvestment)
        avgRevenue == Div(totalRevenue, Num(p.projectTimeline))
        avgEbitda == Div(Sub(totalRevenue, totalCosts), Num(p.projectTimeline))
    IN  [npv |-> calculateNPV(freeCashFlows, p.discountRate),
         irr |-> IRRValue(freeCashFlows),
         paybackPeriod |-> calculatePaybackPeriod(freeCashFlows),
         roi |-> calculateROI(totalGains, p.initialInvestment),
         ebitdaMargin |-> calculateEBITDAMargin(avgEbitda, avgRevenue),
         freeCashFlows |-> freeCashFlows,
         cumulativeCashFlows |->
             CumulativeUpTo(freeCashFlows, Len(freeCashFlows)),
         presentValues |->
             [k \in 1..Len(freeCashFlows) |->
                 Div(freeCashFlows[k],
                     MathPow(Add(Num(1), p.discountRate), k - 1))]]

-----------------------------------------------------------------------------
(* Arrays as objects                                                       *)
(*                                                                         *)
(* Where it matters which array object a value is, the arrays live in a    *)
(* heap: the sequence of the array objects allocated so far, an array      *)
(* being referred to by its position.  A parameters object then holds the  *)
(* references of its annualRevenues and operatingCosts, and a metrics      *)
(* record those of its three arrays.                                       *)

\* A new array object holding content.
ArrayNew(h, content) == [heap |-> Append(h, content), ref |-> Len(h) + 1]

\* Mutant of ArrayMap: the receiver is overwritten and returned.
ArrayMap_InPlace(h, a, factor) ==
    [heap |-> [h EXCEPT ![a] = [k \in 1..Len(@) |-> Mul(@[k], factor)]],
     ref |-> a]

\* h[a].map(x => x * factor): a new array, the receiver left as it is.
ArrayMap(h, a, factor) ==
    ArrayNew(h, [k \in 1..Len(h[a]) |-> Mul(h[a][k], factor)])

\* h[a].push(x): the receiver grows by one entry.
ArrayPush(h, a, x) == [h EXCEPT ![a] = Append(@, x)]

\* The parameters read through their references.
Load(h, p) ==
    [p EXCEPT !.annualRevenues = h[@], !.operatingCosts = h[@]]

\* A metrics record read through its references.
LoadMetrics(h, m) ==
    [m EXCEPT !.freeCashFlows = h[@], !.cumulativeCashFlows = h[@],
              !.presentValues = h[@]]

\* The metrics record m as calculateMetrics leaves it: cashFlows (line 59),
\* the accumulator of the reduce (line 102) and the result of the map (line
\* 104) are new array objects, and the record holds their references.
MetricsOnHeap(h, m) ==
    [heap |-> h \o <<m.freeCashFlows, m.cumulativeCashFlows, m.presentValues>>,
     value |-> [m EXCEPT !.freeCashFlows = Len(h) + 1,
                         !.cumulativeCashFlows = Len(h) + 2,
                         !.presentValues = Len(h) + 3]]

\* calculateMetrics(p) for parameters p on the heap h: it reads the two
\* arrays of p and allocates cashFlows (line 59), the accumulator of the
\* reduce (line 102) and the result of the map (line 104).
calculateMetricsOnHeap(h, p) == MetricsOnHeap(h, calculateMetrics(Load(h, p)))

\* Mutant of bestCaseParams: the costs are raised by 15% instead of lowered.
bestCaseParams_CostUp(h, baseParams) ==
    LET revenues == ArrayMap(h, baseParams.annualRevenues, Q(6, 5))
        costs == ArrayMap(revenues.heap, baseParams.operatingCosts, Q(23, 20))
    IN  [heap |-> costs.heap,
         value |-> [baseParams EXCEPT !.annualRevenues = revenues.ref,
                                      !.operatingCosts = costs.ref]]

\* Lines 122-126: revenues * 1.2, costs * 0.9, the rest spread from baseParams.
bestCaseParams(h, baseParams) ==
    LET revenues == ArrayMap(h, baseParams.annualRevenues, Q(6, 5))
        costs == ArrayMap(revenues.heap, baseParams.operatingCosts, Q(9, 10))
    IN  [heap |-> costs.heap,
         value |-> [baseParams EXCEPT !.annualRevenues = revenues.ref,
                                      !.operatingCosts = costs.ref]]

\* Mutant of worstCaseParams: the revenues are raised by 30%.
worstCaseParams_RevenueUp(h, baseParams) ==
    LET revenues == ArrayMap(h, baseParams.annualRevenues, Q(13, 10))
        costs == ArrayMap(revenues.heap, baseParams.operatingCosts, Q(23, 20))
    IN  [heap |-> costs.heap,
         value |-> [baseParams EXCEPT !.annualRevenues = revenues.ref,
                                      !.operatingCosts = costs.ref]]

\* Lines 129-133: revenues * 0.8, costs * 1.15.
worstCaseParams(h, baseParams) ==
    LET revenues == ArrayMap(h, baseParams.annualRevenues, Q(4, 5))
        costs == ArrayMap(revenues.heap, baseParams.operatingCosts, Q(23, 20))
    IN  [heap |-> costs.heap,
         value |-> [baseParams EXCEPT !.annualRevenues = revenues.ref,
                                      !.operatingCosts = costs.ref]]

\* The value of arr[k] for an index k outside the array.
Undefined == <<0, -1>>

\* arr[k] for a 0-based index k.
ElementAt(arr, k) == IF k + 1 \in 1..Len(arr) THEN arr[k + 1] ELSE Undefined

\* x put into the ascending sequence sorted, after the entries not above it.
RECURSIVE InsertAscending(_, _)
InsertAscending(sorted, x) ==
    IF sorted = <<>> THEN <<x>>
    ELSE IF Lt(x, sorted[Len(sorted)])
         THEN Append(InsertAscending(SubSeq(sorted, 1, Len(sorted) - 1), x),
                     sorted[Len(sorted)])
         ELSE Append(sorted, x)

\* The first n entries of arr in ascending order.
RECURSIVE SortedUpTo(_, _)
SortedUpTo(arr, n) ==
    IF n = 0 THEN <<>> ELSE InsertAscending(SortedUpTo(arr, n - 1), arr[n])

\* h[a].sort((a, b) => a - b) on finite numbers: the receiver itself is put
\* in ascending order and returned.
ArraySort(h, a) ==
    [heap |-> [h EXCEPT ![a] = SortedUpTo(@, Len(@))], ref |-> a]

IsPositive(npv) == Gt(npv, Zero)

IsNegative(npv) == Lt(npv, Zero)

\* Mutant of PositiveCount: the negative samples are counted.
PositiveCount_Negative(arr) == Len(SelectSeq(arr, IsNegative))

\* arr.filter(npv => npv > 0).length
PositiveCount(arr) == Len(SelectSeq(arr, IsPositive))

\* Mutant of PercentileIndex: Math.ceil in place of Math.floor.
PercentileIndex_Ceiling(n, q) == (n * q[1] + q[2] - 1) \div q[2]

\* Math.floor(iterations * q) for a whole number of iterations and 0 < q < 1.
PercentileIndex(n, q) == (n * q[1]) \div q[2]

-----------------------------------------------------------------------------
(* FinancialCalculator: the financial reports                              *)

\* The number of times a loop "for (year = 1; year <= projectTimeline; year++)"
\* runs its body.
LoopYears(p) == IF p.projectTimeline >= 1 THEN p.projectTimeline ELSE 0

\* Mutant of IncomeStatementOf: a negative ebt is taxed too (a negative tax).
IncomeStatementOf_TaxOnLoss(p, year) ==
    LET revenue == ElemOrZero(p.annualRevenues, year - 1)
        operatingCost == ElemOrZero(p.operatingCosts, year - 1)
        depreciation == Mul(p.initialInvestment, p.depreciationRate)
        costOfGoodsSold == Mul(operatingCost, Q(6, 10))
        operatingExpenses == Mul(operatingCost, Q(4, 10))
        grossProfit == Sub(revenue, costOfGoodsSold)
        ebitda == Sub(revenue, operatingCost)
        ebit == Sub(ebitda, depreciation)
        interestExpense == Mul(p.initialInvestment, Q(1, 10))
        ebt == Sub(ebit, interestExpense)
        taxExpense == Mul(ebt, p.taxRate)
        netIncome == Sub(ebt, taxExpense)
    IN  [year |-> year,
         revenue |-> revenue,
         costOfGoodsSold |-> costOfGoodsSold,
         grossProfit |-> grossProfit,
         operatingExpenses |-> operatingExpenses,
         ebitda |-> ebitda,
         depreciation |-> depreciation,
         ebit |-> ebit,
         interestExpense |-> interestExpense,
         ebt |-> ebt,
         taxExpense |-> taxExpense,
         netIncome |-> netIncome,
         ebitdaMargin |->
             IF Gt(revenue, Zero) THEN Mul(Div(ebitda, revenue), Num(100))
             ELSE Zero,
         netProfitMargin |->
             IF Gt(revenue, Zero) THEN Mul(Div(netIncome, revenue), Num(100))
             ELSE Zero]

\* Lines 188-221: the income statement of one year.
IncomeStatementOf(p, year) ==
    LET revenue == ElemOrZero(p.annualRevenues, year - 1)
        operatingCost == ElemOrZero(p.operatingCosts, year - 1)
        depreciation == Mul(p.initialInvestment, p.depreciationRate)
        costOfGoodsSold == Mul(operatingCost, Q(6, 10))
        operatingExpenses == Mul(operatingCost, Q(4, 10))
        grossProfit == Sub(revenue, costOfGoodsSold)
        ebitda == Sub(revenue, operatingCost)
        ebit == Sub(ebitda, depreciation)
        interestExpense == Mul(p.initialInvestment, Q(1, 10))
        ebt == Sub(ebit, interestExpense)
        taxExpense == IF Gt(ebt, Zero) THEN Mul(ebt, p.taxRate) ELSE Zero
        netIncome == Sub(ebt, taxExpense)
    IN  [year |-> year,
         revenue |-> revenue,
         costOfGoodsSold |-> costOfGoodsSold,
         grossProfit |-> grossProfit,
         operatingExpenses |-> operatingExpenses,
         ebitda |-> ebitda,
         depreciation |-> depreciation,
         ebit |-> ebit,
         interestExpense |-> interestExpense,
         ebt |-> ebt,
         taxExpense |-> taxExpense,
         netIncome |-> netIncome,
         ebitdaMargin |->
             IF Gt(revenue, Zero) THEN Mul(Div(ebitda, revenue), Num(100))
             ELSE Zero,
         netProfitMargin |->
             IF Gt(revenue, Zero) THEN Mul(Div(netIncome, revenue), Num(100))
             ELSE Zero]

generateIncomeStatements(p) ==
    [year \in 1..LoopYears(p) |-> IncomeStatementOf(p, year)]

\* Lines 234-287: the balance sheet of one year, from the three accumulators
\* as the previous iteration left them.
BalanceSheetOf(p, year, retainedBefore, accumulatedBefore, cashBefore) ==
    LET revenue == ElemOrZero(p.annualRevenues, year - 1)
        operatingCost == ElemOrZero(p.operatingCosts, year - 1)
        depreciation == Mul(p.initialInvestment, p.depreciationRate)
        netIncome == Sub(Sub(revenue, operatingCost), depreciation)
        retainedEarnings == Add(retainedBefore, netIncome)
        accumulatedDepreciation == Add(accumulatedBefore, depreciation)
        cashBalance == Add(cashBefore, Add(netIncome, depreciation))
        accountsReceivable == Mul(revenue, Q(15, 100))
        inventory == Mul(operatingCost, Q(2, 10))
        prepaidExpenses == Mul(operatingCost, Q(5, 100))
        accountsPayable == Mul(operatingCost, Q(25, 100))
        accruedExpenses == Mul(operatingCost, Q(1, 10))
        totalCurrentAssets ==
            Add(Add(Add(cashBalance, accountsReceivable), inventory),
                prepaidExpenses)
        netPPE == Sub(p.initialInvestment, accumulatedDepreciation)
        totalAssets == Add(totalCurrentAssets, netPPE)
        totalCurrentLiabilities == Add(accountsPayable, accruedExpenses)
        longTermDebt == Mul(p.initialInvestment, Q(6, 10))
        totalLiabilities == Add(totalCurrentLiabilities, longTermDebt)
        commonStock == Mul(p.initialInvestment, Q(4, 10))
        totalEquity == Add(commonStock, retainedEarnings)
    IN  [year |-> year,
         cashAndEquivalents |-> cashBalance,
         accountsReceivable |-> accountsReceivable,
         inventory |-> inventory,
         prepaidExpenses |-> prepaidExpenses,
         totalCurrentAssets |-> totalCurrentAssets,
         propertyPlantEquipment |-> p.initialInvestment,
         accumulatedDepreciation |-> accumulatedDepreciation,
         netPPE |-> netPPE,
         totalAssets |-> totalAssets,
         accountsPayable |-> accountsPayable,
         accruedExpenses |-> accruedExpenses,
         shortTermDebt |-> Zero,
         totalCurrentLiabilities |-> totalCurrentLiabilities,
         longTermDebt |-> longTermDebt,
         totalLiabilities |-> totalLiabilities,
         commonStock |-> commonStock,
         retainedEarnings |-> retainedEarnings,
         totalEquity |-> totalEquity,
         currentRatio |->
             IF Gt(totalCurrentLiabilities, Zero)
             THEN Div(totalCurrentAssets, totalCurrentLiabilities) ELSE Zero,
         debtToEquityRatio |->
             IF Gt(totalEquity, Zero) THEN Div(totalLiabilities, totalEquity)
             ELSE Zero,
         returnOnEquity |->
             IF Gt(totalEquity, Zero)
             THEN Mul(Div(netIncome, totalEquity), Num(100)) ELSE Zero]

\* Mutant of BalanceSheetsUpTo: the accumulators start afresh in every year.
BalanceSheetsUpTo_FreshEachYear(p, n) ==
    [year \in 1..n |-> BalanceSheetOf(p, year, Zero, Zero, p.workingCapital)]

\* Lines 229-288: the balance sheets of the years 1..n.  A sheet records the
\* three accumulators as its iteration leaves them.
RECURSIVE BalanceSheetsUpTo(_, _)
BalanceSheetsUpTo(p, n) ==
    IF n = 0 THEN <<>>
    ELSE LET before == BalanceSheetsUpTo(p, n - 1)
         IN  Append(before,
                 IF n = 1
                 THEN BalanceSheetOf(p, n, Zero, Zero, p.workingCapital)
                 ELSE BalanceSheetOf(p, n, before[n - 1].retainedEarnings,
                                     before[n - 1].accumulatedDepreciation,
                                     before[n - 1].cashAndEquivalents))

generateBalanceSheets(p) == BalanceSheetsUpTo(p, LoopYears(p))

\* Lines 298-339: the cash flow statement of one year.
CashFlowStatementOf(p, year, beginningCashBalance) ==
    LET revenue == ElemOrZero(p.annualRevenues, year - 1)
        operatingCost == ElemOrZero(p.operatingCosts, year - 1)
        depreciation == Mul(p.initialInvestment, p.depreciationRate)
        netIncome == Sub(Sub(revenue, operatingCost), depreciation)
        accountsReceivable == Mul(revenue, Q(15, 100))
        inventory == Mul(operatingCost, Q(2, 10))
        accountsPayable == Mul(operatingCost, Q(25, 100))
        changesInWorkingCapital ==
            Sub(Add(accountsReceivable, inventory), accountsPayable)
        netOperatingCashFlow ==
            Sub(Add(netIncome, depreciation), changesInWorkingCapital)
        capitalExpenditures ==
            IF year = 1 THEN p.initialInvestment
            ELSE Mul(p.initialInvestment, Q(5, 100))
        netInvestingCashFlow == Neg(capitalExpenditures)
        debtIssuance ==
            IF year = 1 THEN Mul(p.initialInvestment, Q(6, 10)) ELSE Zero
        debtRepayment ==
            IF year > 1 THEN Div(debtIssuance, Num(p.projectTimeline - 1))
            ELSE Zero
        dividends ==
            IF Gt(netIncome, Zero) THEN Mul(netIncome, Q(3, 10)) ELSE Zero
        netFinancingCashFlow == Sub(Sub(debtIssuance, debtRepayment), dividends)
        netCashFlow ==
            Add(Add(netOperatingCashFlow, netInvestingCashFlow),
                netFinancingCashFlow)
        endingCashBalance == Add(beginningCashBalance, netCashFlow)
    IN  [year |-> year,
         netIncome |-> netIncome,
         depreciation |-> depreciation,
         changesInWorkingCapital |-> changesInWorkingCapital,
         netOperatingCashFlow |-> netOperatingCashFlow,
         capitalExpenditures |-> capitalExpenditures,
         netInvestingCashFlow |-> netInvestingCashFlow,
         debtIssuance |-> debtIssuance,
         debtRepayment |-> debtRepayment,
         dividends |-> dividends,
         netFinancingCashFlow |-> netFinancingCashFlow,
         netCashFlow |-> netCashFlow,
         beginningCashBalance |-> beginningCashBalance,
         endingCashBalance |-> endingCashBalance]

\* Mutant of CashFlowStatementsUpTo: every year begins with workingCapital.
CashFlowStatementsUpTo_FromWorkingCapital(p, n) ==
    [year \in 1..n |-> CashFlowStatementOf(p, year, p.workingCapital)]

\* Lines 295-342: the cash flow statements of the years 1..n.
RECURSIVE CashFlowStatementsUpTo(_, _)
CashFlowStatementsUpTo(p, n) ==
    IF n = 0 THEN <<>>
    ELSE LET before == CashFlowStatementsUpTo(p, n - 1)
         IN  Append(before,
                 CashFlowStatementOf(p, n,
                     IF n = 1 THEN p.workingCapital
                     ELSE before[n - 1].endingCashBalance))

generateCashFlowStatements(p) == CashFlowStatementsUpTo(p, LoopYears(p))

\* Mutant of LastEntry: the first entry is taken.
LastEntry_First(arr) == arr[1]

\* arr[arr.length - 1] of an array that is not empty
LastEntry(arr) == arr[Len(arr)]

generateFinancialReports(p) ==
    LET incomeStatements == generateIncomeStatements(p)
        balanceSheets == generateBalanceSheets(p)
        cashFlowStatements == generateCashFlowStatements(p)
        noSheet == Len(balanceSheets) = 0
    IN  [incomeStatements |-> incomeStatements,
         balanceSheets |-> balanceSheets,
         cashFlowStatements |-> cashFlowStatements,
         summary |->
             [totalRevenue |->
                  ReduceSum([k \in 1..Len(incomeStatements) |->
                                incomeStatements[k].revenue]),
              totalNetIncome |->
                  ReduceSum([k \in 1..Len(incomeStatements) |->
                                incomeStatements[k].netIncome]),
              totalAssets |->
                  IF noSheet THEN Zero
                  ELSE OrZero(LastEntry(balanceSheets).totalAssets),
              totalLiabilities |->
                  IF noSheet THEN Zero
                  ELSE OrZero(LastEntry(balanceSheets).totalLiabilities),
              totalEquity |->
                  IF noSheet THEN Zero
                  ELSE OrZero(LastEntry(balanceSheets).totalEquity),
              cumulativeCashFlow |->
                  ReduceSum([k \in 1..Len(cashFlowStatements) |->
                                cashFlowStatements[k].netCashFlow])]]

-----------------------------------------------------------------------------
(* Inputs                                                                  *)

MaxTimeline == 2

\* All sequences over S of length at most n.
RECURSIVE SeqsUpTo(_, _)
SeqsUpTo(S, n) ==
    IF n = 0 THEN {<<>>}
    ELSE LET shorter == SeqsUpTo(S, n - 1)
         IN  shorter \cup {Append(s, x) : s \in {t \in shorter : Len(t) = n - 1}, x \in S}

Investments == {Num(0), Num(10)}
Revenues == {Num(0), Num(10)}
Costs == {Num(0), Num(4)}
WorkingCapitals == {Num(0), Num(2)}
TerminalValues == {Num(0), Num(3)}
\* In each set of rates the last value lies outside the documented domain.
TaxRates == {Num(0), Q(1, 4), Q(3, 2)}
DiscountRates == {Num(0), Q(1, 10), Q(-1, 2)}
DepreciationRates == {Num(0), Q(1, 5), Num(2)}
GrowthRates == {Num(0), Q(1, 5)}

\* The concrete scenario of the specification's testable properties.
ScenarioParams ==
    [initialInvestment |-> Num(100000), projectTimeline |-> 1,
     annualRevenues |-> <<Num(150000)>>, operatingCosts |-> <<Num(50000)>>,
     taxRate |-> Q(1, 4), discountRate |-> Q(1, 10),
     depreciationRate |-> Q(1, 5), workingCapital |-> Num(0),
     terminalGrowthRate |-> Num(0), terminalValue |-> Num(0)]

ParamSpace ==
    [initialInvestment : Investments, projectTimeline : 0..MaxTimeline,
     annualRevenues : SeqsUpTo(Revenues, MaxTimeline),
     operatingCosts : SeqsUpTo(Costs, MaxTimeline),
     taxRate : TaxRates, discountRate : DiscountRates,
     depreciationRate : DepreciationRates, workingCapital : WorkingCapitals,
     terminalGrowthRate : GrowthRates, terminalValue : TerminalValues]
    \cup {ScenarioParams}

InUnit(x) == Ge(x, Zero) /\ Le(x, Num(1))

\* The documented domain of ProjectParameters, as the claims state it.
ValidParams(p) ==
    /\ p.projectTimeline >= 1
    /\ InUnit(p.taxRate)
    /\ InUnit(p.discountRate)
    /\ InUnit(p.depreciationRate)
    /\ Ge(p.terminalGrowthRate, Zero)
    /\ Le(p.terminalGrowthRate, Q(1, 10))

-----------------------------------------------------------------------------
(* The presentation layer: App, ParametersForm and MonteCarloSimulation.   *)
(* A component that is not rendered has no state; a component that is      *)
(* rendered again starts from its initial state.                           *)

MaxFormYears == 2
MaxPending == 2

\* The state of a component that is not mounted.
Unmounted == [mounted |-> FALSE]

\* null, the initial value of metrics, scenarios and results.
Null == [fn |-> "null"]

\* The object literal both App and ParametersForm start from.
InitialParameters ==
    [initialInvestment |-> Zero, projectTimeline |-> 1,
     annualRevenues |-> <<Zero>>, operatingCosts |-> <<Zero>>,
     taxRate |-> Q(1, 4), discountRate |-> Q(1, 10),
     depreciationRate |-> Q(1, 5), workingCapital |-> Zero,
     terminalGrowthRate |-> Q(1, 50), terminalValue |-> Zero]

\* The tabs of App; charts, reports and help render neither ParametersForm
\* nor MonteCarloSimulation and are told apart from metrics by name only.
Tabs == {"parameters", "metrics", "charts", "reports", "monte-carlo", "help"}

\* The texts typed into the number inputs, and Number(e.target.value).
TypedTexts == {"", "0", "1", "2", "3", "4", "10", "25", "150"}

NumberOf(text) ==
    CASE text = "" -> 0
      [] text = "0" -> 0
      [] text = "1" -> 1
      [] text = "2" -> 2
      [] text = "3" -> 3
      [] text = "4" -> 4
      [] text = "10" -> 10
      [] text = "25" -> 25
      [] text = "150" -> 150

\* The value an input handler gives to its field: the rate inputs divide the
\* typed percentage by 100, projectTimeline stays a count of years.
FieldValue(field, text) ==
    IF field \in {"taxRate", "discountRate", "depreciationRate",
                  "terminalGrowthRate"}
    THEN Div(Num(NumberOf(text)), Num(100))
    ELSE IF field = "projectTimeline" THEN NumberOf(text)
    ELSE Num(NumberOf(text))

\* The keys of the errors object of the validation effect; the key
\* revenue_<index> is <<"revenue", index>>, the key of a scalar field is
\* <<field, -1>>.
ValidationErrorsOf(p) ==
    {<<"initialInvestment", -1>> : x \in {q \in {p} : Le(q.initialInvestment, Zero)}}
    \cup {<<"projectTimeline", -1>> : x \in {q \in {p} : q.projectTimeline < 1 \/ q.projectTimeline > 20}}
    \cup {<<"taxRate", -1>> : x \in {q \in {p} : Lt(q.taxRate, Zero) \/ Gt(q.taxRate, Num(1))}}
    \cup {<<"discountRate", -1>> : x \in {q \in {p} : Lt(q.discountRate, Zero) \/ Gt(q.discountRate, Num(1))}}
    \cup {<<"depreciationRate", -1>> : x \in {q \in {p} : Lt(q.depreciationRate, Zero) \/ Gt(q.depreciationRate, Num(1))}}
    \cup {<<"terminalGrowthRate", -1>> : x \in {q \in {p} : Lt(q.terminalGrowthRate, Zero) \/ Gt(q.terminalGrowthRate, Q(1, 10))}}
    \cup {<<"revenue", k - 1>> : k \in {j \in 1..Len(p.annualRevenues) :
              p.annualRevenues[j] # Undefined /\ Lt(p.annualRevenues[j], Zero)}}
    \cup {<<"cost", k - 1>> : k \in {j \in 1..Len(p.operatingCosts) :
              p.operatingCosts[j] # Undefined /\ Lt(p.operatingCosts[j], Zero)}}

\* The state of ParametersForm once its validation effect has run on p.
FormShowing(p) ==
    [mounted |-> TRUE, params |-> p,
     validationErrors |-> ValidationErrorsOf(p),
     isFormValid |-> ValidationErrorsOf(p) = {}]

\* { ...params, ...newParams }
Spread(local, newParams) ==
    [f \in DOMAIN local |->
        IF f \in DOMAIN newParams THEN newParams[f] ELSE local[f]]

\* newArray = [...array]; newArray[index] = value, index counted from 0;
\* an index past the end leaves undefined entries before it.
ArrayWith(array, index, value) ==
    [k \in 1..(IF index + 1 > Len(array) THEN index + 1 ELSE Len(array)) |->
        IF k = index + 1 THEN value
        ELSE IF k <= Len(array) THEN array[k] ELSE Undefined]

\* array[array.length - 1] || 0
LastOrZero(array) ==
    IF array = <<>> \/ array[Len(array)] = Undefined THEN Zero
    ELSE OrZero(array[Len(array)])

\* array.slice(0, n)
SliceTo(array, n) ==
    SubSeq(array, 1, IF n < Len(array) THEN (IF n < 0 THEN 0 ELSE n) ELSE Len(array))

\* The value calculateMetrics and calculateScenarioAnalysis return for p,
\* kept as the call that produced it.
MetricsFor(p) == [fn |-> "calculateMetrics", parameters |-> p]

ScenariosFor(p) == [fn |-> "calculateScenarioAnalysis", parameters |-> p]

\* The value runMonteCarloSimulation returns, kept as the call.
SimulationResultsFor(p, n) ==
    [fn |-> "runMonteCarloSimulation", parameters |-> p, iterations |-> n]

\* The state of App once its effect has run on p.
AppShowing(tab, p) ==
    [activeTab |-> tab, parameters |-> p, metrics |-> MetricsFor(p),
     scenarios |-> ScenariosFor(p)]

\* The state of MonteCarloSimulation when it mounts.
InitialSimulation ==
    [mounted |-> TRUE, results |-> Null, isRunning |-> FALSE,
     iterations |-> 1000]

\* The presentation layer after App has mounted and its effects have run.
AppMounted ==
    /\ app = AppShowing("parameters", InitialParameters)
    /\ form = FormShowing(InitialParameters)
    /\ simulation = Unmounted
    /\ pendingRuns = <<>>

\* The presentation layer at rest while the engine is studied on its own.
AppIdle == AppMounted

-----------------------------------------------------------------------------
(* Specification of calculateMetrics                                       *)

FlowsIdle ==
    /\ flows = <<>>
    /\ rateArg = Zero
    /\ npvCall = NoCall
    /\ paybackCall = NoCall

IRRIdle ==
    /\ irrFlows = <<>>
    /\ irrPc = "idle"
    /\ irrI = 0
    /\ irrRate = Zero
    /\ irrExit = "none"

MetricsIdle ==
    /\ params = ScenarioParams
    /\ outcome = NoCall

EntryIdle ==
    /\ heap = <<>>
    /\ scenarioCall = NoCall
    /\ reportsCall = NoCall
    /\ iterations = 0
    /\ randoms = <<>>
    /\ monteCarloCall = NoCall

InitMetrics ==
    /\ params \in ParamSpace
    /\ outcome = NoCall
    /\ FlowsIdle
    /\ IRRIdle
    /\ EntryIdle
    /\ AppIdle

\* A call of calculateMetrics(params): the function has no throw statement and
\* validates nothing, so every call returns a record.
CalculateMetrics ==
    /\ outcome = NoCall
    /\ outcome' = [status |-> "returned", value |-> calculateMetrics(params)]
    /\ UNCHANGED <<params, flowVars, irrVars, entryVars>>
    /\ UNCHANGED appVars

NextMetrics == CalculateMetrics

SpecMetrics == InitMetrics /\ [][NextMetrics]_vars


-----------------------------------------------------------------------------
(* Specification of the functions of a cash-flow sequence called directly  *)

MaxFlows == 3

FlowValues == {Num(-10), Num(-3), Num(0), Num(3), Num(10)}

\* The last two rates lie at and below -1, where 1 + rate is not positive.
RateValues == {Num(0), Q(1, 10), Num(-1), Num(-2)}

InitFlows ==
    /\ flows \in SeqsUpTo(FlowValues, MaxFlows)
    /\ rateArg \in RateValues
    /\ npvCall = NoCall
    /\ paybackCall = NoCall
    /\ MetricsIdle
    /\ IRRIdle
    /\ EntryIdle
    /\ AppIdle

\* A call of calculateNPV(flows, rateArg): it has no guard and no throw.
CallNPV ==
    /\ npvCall = NoCall
    /\ npvCall' = [status |-> "returned", value |-> calculateNPV(flows, rateArg)]
    /\ UNCHANGED <<flows, rateArg, paybackCall, metricVars, irrVars, entryVars>>
    /\ UNCHANGED appVars

\* A call of calculatePaybackPeriod(flows).
CallPayback ==
    /\ paybackCall = NoCall
    /\ paybackCall' =
           [status |-> "returned", value |-> calculatePaybackPeriod(flows)]
    /\ UNCHANGED <<flows, rateArg, npvCall, metricVars, irrVars, entryVars>>
    /\ UNCHANGED appVars

NextFlows == CallNPV \/ CallPayback

SpecFlows == InitFlows /\ [][NextFlows]_vars

-----------------------------------------------------------------------------
(* Specification of calculateIRR, one loop iteration per step              *)

maxIterations == 100

tolerance == Q(1, 10000000)

guess == Q(1, 10)

\* Cash-flow sequences on which Newton's iterates stay within machine
\* integers in exact arithmetic: no flow after the first, the guess already a
\* root, an exact two-cycle 0.1 -> 0 -> 0.1, an iterate of exactly -1, and
\* iterates that run away to the left of -1.
IRRFlowSpace ==
    {<<>>,
     <<Num(-5)>>,
     <<Num(0), Num(0), Num(0)>>,
     <<Num(-10), Num(0)>>,
     <<Num(-10), Num(11)>>,
     <<Num(-380), Num(784), Num(-407)>>,
     <<Num(-20), Num(11)>>,
     <<Q(-1, 10), Q(1, 100)>>,
     <<Q(-1, 1000), Q(1, 100000)>>}

InitIRR ==
    /\ irrFlows \in IRRFlowSpace
    /\ irrPc = "idle"
    /\ irrI = 0
    /\ irrRate = Zero
    /\ irrExit = "none"
    /\ MetricsIdle
    /\ FlowsIdle
    /\ EntryIdle
    /\ AppIdle

\* Lines 11-13: the call, with the default guess.
IRRStart ==
    /\ irrPc = "idle"
    /\ irrPc' = "loop"
    /\ irrI' = 0
    /\ irrRate' = guess
    /\ UNCHANGED <<irrFlows, irrExit, metricVars, flowVars, entryVars>>
    /\ UNCHANGED appVars

\* rate - npv / derivative (line 23)
NewtonStep(cashFlows, rate) ==
    Sub(rate, Div(calculateNPV(cashFlows, rate), Derivative(cashFlows, rate)))

\* Line 21: the derivative is below the tolerance.
DerivativeBreak(cashFlows, rate) ==
    Lt(MathAbs(Derivative(cashFlows, rate)), tolerance)

\* Line 24: the step is below the tolerance.
StepBreak(cashFlows, rate) ==
    Lt(MathAbs(Sub(NewtonStep(cashFlows, rate), rate)), tolerance)

\* Mutant of LoopTest: the loop runs while i <= maxIterations.
LoopTest_Inclusive(i) == i <= maxIterations

\* The loop's test i < maxIterations (line 15).
LoopTest(i) == i < maxIterations

\* Lines 15-27: one iteration of the loop body.
IRRIterate ==
    /\ irrPc = "loop"
    /\ LoopTest(irrI)
    /\ IF DerivativeBreak(irrFlows, irrRate)
       THEN irrPc' = "done" /\ irrExit' = "derivative"
            /\ UNCHANGED <<irrRate, irrI>>
       ELSE IF StepBreak(irrFlows, irrRate)
       THEN irrPc' = "done" /\ irrExit' = "step"
            /\ UNCHANGED <<irrRate, irrI>>
       ELSE /\ irrRate' = NewtonStep(irrFlows, irrRate)
            /\ irrI' = irrI + 1
            /\ UNCHANGED <<irrPc, irrExit>>
    /\ UNCHANGED <<irrFlows, metricVars, flowVars, entryVars>>
    /\ UNCHANGED appVars

\* Lines 15 and 29: the loop test fails and the rate is returned.
IRRExhaust ==
    /\ irrPc = "loop"
    /\ ~LoopTest(irrI)
    /\ irrPc' = "done"
    /\ irrExit' = "exhausted"
    /\ UNCHANGED <<irrFlows, irrRate, irrI, metricVars, flowVars, entryVars>>
    /\ UNCHANGED appVars

NextIRR == IRRStart \/ IRRIterate \/ IRRExhaust

SpecIRR == InitIRR /\ [][NextIRR]_vars

-----------------------------------------------------------------------------
(* Specification of calculateScenarioAnalysis                              *)

\* The last tax rate and the last discount rate lie outside [0, 1], and the
\* first revenue and the first cost are negative.
ScenarioSpace ==
    [initialInvestment : {Num(10)}, projectTimeline : 0..MaxTimeline,
     annualRevenues : SeqsUpTo({Num(-10), Num(0), Num(10)}, MaxTimeline),
     operatingCosts : SeqsUpTo({Num(-4), Num(4)}, MaxTimeline),
     taxRate : {Num(0), Q(1, 4), Q(3, 2)},
     discountRate : {Q(1, 10), Num(1), Q(-3, 2)},
     depreciationRate : {Q(1, 5)}, workingCapital : {Num(2)},
     terminalGrowthRate : {Num(0)}, terminalValue : {Num(3)}]

\* The object the caller passes: its two arrays are the first two of the heap.
CallerParams == [params EXCEPT !.annualRevenues = 1, !.operatingCosts = 2]

\* Before a call the heap holds the caller's two arrays and nothing else.
CallerHeap == heap = <<params.annualRevenues, params.operatingCosts>>

MonteCarloIdle ==
    /\ iterations = 0
    /\ randoms = <<>>
    /\ monteCarloCall = NoCall

InitScenario ==
    /\ params \in ScenarioSpace
    /\ CallerHeap
    /\ outcome = NoCall
    /\ scenarioCall = NoCall
    /\ reportsCall = NoCall
    /\ MonteCarloIdle
    /\ FlowsIdle
    /\ IRRIdle
    /\ AppIdle

\* A call of calculateScenarioAnalysis(params), statement by statement (lines
\* 122, 129 and 135-139): the two parameter objects are built, then
\* calculateMetrics is called on the best-case, the given and the worst-case
\* parameters, in this order; no guard and no throw.  No other call starts
\* while a simulation is running.
CalculateScenarioAnalysis ==
    /\ scenarioCall = NoCall
    /\ monteCarloCall.status # "running"
    /\ \E best \in {bestCaseParams(heap, CallerParams)} :
       \E worst \in {worstCaseParams(best.heap, CallerParams)} :
       \E callees \in {<<best.value, CallerParams, worst.value>>} :
       \E metrics \in
              {[k \in 1..3 |-> calculateMetrics(Load(worst.heap, callees[k]))]} :
       \E bestCase \in {MetricsOnHeap(worst.heap, metrics[1])} :
       \E baseCase \in {MetricsOnHeap(bestCase.heap, metrics[2])} :
       \E worstCase \in {MetricsOnHeap(baseCase.heap, metrics[3])} :
           /\ heap' = worstCase.heap
           /\ scenarioCall' =
                  [status |-> "returned",
                   value |-> [bestCase |-> bestCase.value,
                              baseCase |-> baseCase.value,
                              worstCase |-> worstCase.value]]
    /\ UNCHANGED <<metricVars, reportsCall, monteCarloVars, flowVars, irrVars>>
    /\ UNCHANGED appVars

NextScenario == CalculateScenarioAnalysis

SpecScenario == InitScenario /\ [][NextScenario]_vars

-----------------------------------------------------------------------------
(* Specification of runMonteCarloSimulation                                *)

MaxIterations == 2

\* Values of Math.random(), which lie in [0, 1).
RandomValues == {Num(0), Q(1, 2)}

\* Small projects: one whose net present value changes sign with the draws,
\* one that never pays, and a two-year project discounted at rate 0.
MonteCarloParams ==
    {[initialInvestment |-> Num(10), projectTimeline |-> 1,
      annualRevenues |-> <<Num(20)>>, operatingCosts |-> <<Num(4)>>,
      taxRate |-> Q(1, 4), discountRate |-> Q(1, 10),
      depreciationRate |-> Q(1, 5), workingCapital |-> Num(0),
      terminalGrowthRate |-> Num(0), terminalValue |-> Num(0)],
     [initialInvestment |-> Num(10), projectTimeline |-> 1,
      annualRevenues |-> <<Num(5)>>, operatingCosts |-> <<Num(4)>>,
      taxRate |-> Q(1, 4), discountRate |-> Q(1, 10),
      depreciationRate |-> Q(1, 5), workingCapital |-> Num(0),
      terminalGrowthRate |-> Num(0), terminalValue |-> Num(0)],
     [initialInvestment |-> Num(10), projectTimeline |-> 2,
      annualRevenues |-> <<Num(10), Num(10)>>, operatingCosts |-> <<Num(4)>>,
      taxRate |-> Num(0), discountRate |-> Num(0),
      depreciationRate |-> Q(1, 5), workingCapital |-> Num(2),
      terminalGrowthRate |-> Num(0), terminalValue |-> Num(3)]}

InitMonteCarlo ==
    /\ params \in MonteCarloParams
    /\ CallerHeap
    /\ iterations \in 0..MaxIterations
    /\ randoms = <<>>
    /\ monteCarloCall = NoCall
    /\ outcome = NoCall
    /\ scenarioCall = NoCall
    /\ reportsCall = NoCall
    /\ FlowsIdle
    /\ IRRIdle
    /\ AppIdle

\* Lines 142-144: a call of runMonteCarloSimulation(params, iterations)
\* creates its two result arrays. The function takes no other argument.
RunMonteCarloSimulation ==
    /\ monteCarloCall = NoCall
    /\ \E npvResults \in {ArrayNew(heap, <<>>)} :
       \E irrResults \in {ArrayNew(npvResults.heap, <<>>)} :
           /\ heap' = irrResults.heap
           /\ monteCarloCall' = [status |-> "running",
                                 npvResults |-> npvResults.ref,
                                 irrResults |-> irrResults.ref]
    /\ UNCHANGED <<iterations, randoms, metricVars, scenarioCall, reportsCall,
                   flowVars, irrVars>>
    /\ UNCHANGED appVars

\* Lines 146-162: one iteration of the loop. Math.random() is called three
\* times and may return any of its values; the perturbed parameters are a
\* new object with new arrays, and the npv and the irr of their metrics are
\* pushed onto the result arrays.
SimulationIteration ==
    /\ monteCarloCall.status = "running"
    /\ Len(randoms) \div 3 < iterations
    /\ \E r \in RandomValues \X RandomValues \X RandomValues :
       \E revenueVariation \in {Add(Q(8, 10), Mul(r[1], Q(4, 10)))} :
       \E costVariation \in {Add(Q(85, 100), Mul(r[2], Q(3, 10)))} :
       \E discountVariation \in
              {Mul(params.discountRate, Add(Q(9, 10), Mul(r[3], Q(2, 10))))} :
       \E revenues \in
              {ArrayMap(heap, CallerParams.annualRevenues, revenueVariation)} :
       \E costs \in
              {ArrayMap(revenues.heap, CallerParams.operatingCosts,
                        costVariation)} :
       \E metrics \in
              {calculateMetricsOnHeap(
                   costs.heap,
                   [CallerParams EXCEPT !.annualRevenues = revenues.ref,
                                        !.operatingCosts = costs.ref,
                                        !.discountRate = discountVariation])} :
           /\ heap' = ArrayPush(ArrayPush(metrics.heap,
                                          monteCarloCall.npvResults,
                                          metrics.value.npv),
                                monteCarloCall.irrResults, metrics.value.irr)
           /\ randoms' = randoms \o r
    /\ UNCHANGED <<iterations, monteCarloCall, metricVars, scenarioCall,
                   reportsCall, flowVars, irrVars>>
    /\ UNCHANGED appVars

\* Lines 164-180: after the loop npvResults is sorted, the statistics are
\* taken from it, and the result holds the two arrays themselves.
SimulationReturn ==
    /\ monteCarloCall.status = "running"
    /\ ~(Len(randoms) \div 3 < iterations)
    /\ \E sortedNPV \in {ArraySort(heap, monteCarloCall.npvResults)} :
       \E npvs \in {sortedNPV.heap[monteCarloCall.npvResults]} :
       \E sorted \in {sortedNPV.heap[sortedNPV.ref]} :
           /\ heap' = sortedNPV.heap
           /\ monteCarloCall' =
                  [status |-> "returned",
                   value |->
                       [npvDistribution |-> monteCarloCall.npvResults,
                        irrDistribution |-> monteCarloCall.irrResults,
                        probabilityOfPositiveNPV |->
                            Div(Num(PositiveCount(npvs)), Num(iterations)),
                        expectedNPV |->
                            Div(ReduceSum(npvs), Num(iterations)),
                        npvPercentiles |->
                            [p10 |-> ElementAt(sorted, PercentileIndex(
                                         iterations, Q(1, 10))),
                             p25 |-> ElementAt(sorted, PercentileIndex(
                                         iterations, Q(25, 100))),
                             p50 |-> ElementAt(sorted, PercentileIndex(
                                         iterations, Q(5, 10))),
                             p75 |-> ElementAt(sorted, PercentileIndex(
                                         iterations, Q(75, 100))),
                             p90 |-> ElementAt(sorted, PercentileIndex(
                                         iterations, Q(9, 10)))]]]
    /\ UNCHANGED <<iterations, randoms, metricVars, scenarioCall, reportsCall,
                   flowVars, irrVars>>
    /\ UNCHANGED appVars

NextMonteCarlo ==
    \/ RunMonteCarloSimulation
    \/ SimulationIteration
    \/ SimulationReturn

SpecMonteCarlo == InitMonteCarlo /\ [][NextMonteCarlo]_vars

-----------------------------------------------------------------------------
(* Specification of generateFinancialReports                               *)

MaxYears == 3

ReportSpace ==
    [initialInvestment : {Num(0), Num(10)}, projectTimeline : 0..MaxYears,
     annualRevenues : SeqsUpTo({Num(0), Num(10)}, MaxYears),
     operatingCosts : SeqsUpTo({Num(0), Num(4)}, MaxYears),
     taxRate : {Q(1, 4)}, discountRate : {Q(1, 10)},
     depreciationRate : {Q(1, 5), Q(1, 2)},
     workingCapital : {Num(0), Num(2)},
     terminalGrowthRate : {Num(0)}, terminalValue : {Num(0)}]

InitReports ==
    /\ params \in ReportSpace
    /\ CallerHeap
    /\ outcome = NoCall
    /\ scenarioCall = NoCall
    /\ reportsCall = NoCall
    /\ MonteCarloIdle
    /\ FlowsIdle
    /\ IRRIdle
    /\ AppIdle

\* A call of generateFinancialReports(params): it reads the caller's arrays
\* and builds its statements in arrays of its own; no guard and no throw.
GenerateFinancialReports ==
    /\ reportsCall = NoCall
    /\ monteCarloCall.status # "running"
    /\ reportsCall' =
           [status |-> "returned",
            value |-> generateFinancialReports(Load(heap, CallerParams))]
    /\ UNCHANGED <<metricVars, heap, scenarioCall, monteCarloVars, flowVars,
                   irrVars>>
    /\ UNCHANGED appVars

NextReports == GenerateFinancialReports

SpecReports == InitReports /\ [][NextReports]_vars

-----------------------------------------------------------------------------
(* Specification of the four entry points called on one parameters object  *)

InitEntryPoints ==
    /\ params \in MonteCarloParams
    /\ CallerHeap
    /\ iterations \in 0..MaxIterations
    /\ randoms = <<>>
    /\ monteCarloCall = NoCall
    /\ outcome = NoCall
    /\ scenarioCall = NoCall
    /\ reportsCall = NoCall
    /\ FlowsIdle
    /\ IRRIdle
    /\ AppIdle

\* A call of calculateMetrics(params) on the caller's object; the record it
\* returns holds the references of its arrays.
CalculateMetricsOnHeap ==
    /\ outcome = NoCall
    /\ monteCarloCall.status # "running"
    /\ LET r == calculateMetricsOnHeap(heap, CallerParams)
       IN  /\ heap' = r.heap
           /\ outcome' = [status |-> "returned", value |-> r.value]
    /\ UNCHANGED <<params, scenarioCall, reportsCall, monteCarloVars,
                   flowVars, irrVars>>
    /\ UNCHANGED appVars

NextEntryPoints ==
    \/ CalculateMetricsOnHeap
    \/ CalculateScenarioAnalysis
    \/ RunMonteCarloSimulation
    \/ SimulationIteration
    \/ SimulationReturn
    \/ GenerateFinancialReports

SpecEntryPoints == InitEntryPoints /\ [][NextEntryPoints]_vars

-----------------------------------------------------------------------------
(* Specification of App with ParametersForm (SpecForm) and with            *)
(* MonteCarloSimulation (SpecSimulation). One action is one user event or  *)
(* one timer, together with the renders and effects that follow it.        *)

engineVars == <<metricVars, flowVars, irrVars, entryVars>>

EngineIdle == MetricsIdle /\ FlowsIdle /\ IRRIdle /\ EntryIdle

\* The texts typed into the Project Timeline, Initial Investment, Tax Rate
\* and revenue or cost inputs.
TimelineTexts == {t \in {"", "1", "2", "3", "4"} : NumberOf(t) <= MaxFormYears}

FieldEdits ==
    ({"projectTimeline"} \X TimelineTexts)
    \cup ({"initialInvestment"} \X {"0", "10"})
    \cup ({"taxRate"} \X {"25", "150"})

InvestmentEdits == {"initialInvestment"} \X {"0", "10"}

CellTexts == {"0", "10"}

\* The options of the iterations select that are offered to the user here.
IterationOptions == {500, 1000}

\* A click on a tab: App renders the component of that tab only. A
\* component that leaves the page loses its state, and the timers of its
\* runSimulation calls outlive it.
SetActiveTab(tab) ==
    /\ app' = [app EXCEPT !.activeTab = tab]
    /\ form' = IF tab # "parameters" THEN Unmounted
               ELSE IF form.mounted THEN form
               ELSE FormShowing(InitialParameters)
    /\ simulation' = IF tab # "monte-carlo" THEN Unmounted
                     ELSE IF simulation.mounted THEN simulation
                     ELSE InitialSimulation
    /\ pendingRuns' = IF tab = "monte-carlo" THEN pendingRuns
                      ELSE [k \in 1..Len(pendingRuns) |->
                               [pendingRuns[k] EXCEPT !.mounted = FALSE]]
    /\ UNCHANGED engineVars

\* updateParams, the validation effect of ParametersForm on the new params,
\* handleParametersChange and the effect of App on the new parameters.
updateParams(newParams) ==
    \E updatedParams \in {Spread(form.params, newParams)} :
        /\ form' = FormShowing(updatedParams)
        /\ app' = AppShowing(app.activeTab, updatedParams)
        /\ UNCHANGED <<simulation, pendingRuns, engineVars>>

\* onChange of a scalar input.
EditField(field, text) ==
    /\ form.mounted
    /\ updateParams([f \in {field} |-> FieldValue(field, text)])

\* onChange of the revenue or cost input of the row index: updateArrayValue.
EditCell(field, index, text) ==
    /\ form.mounted
    /\ index < form.params.projectTimeline
    /\ updateParams([f \in {field} |->
           ArrayWith(form.params[field], index, Num(NumberOf(text)))])

addYear ==
    /\ form.mounted
    /\ form.params.projectTimeline < MaxFormYears
    /\ Len(form.params.annualRevenues) < MaxFormYears
    /\ Len(form.params.operatingCosts) < MaxFormYears
    /\ updateParams(
           [projectTimeline |-> form.params.projectTimeline + 1,
            annualRevenues |-> Append(form.params.annualRevenues,
                                      LastOrZero(form.params.annualRevenues)),
            operatingCosts |-> Append(form.params.operatingCosts,
                                      LastOrZero(form.params.operatingCosts))])

removeYear ==
    /\ form.mounted
    /\ form.params.projectTimeline > 1
    /\ updateParams(
           [projectTimeline |-> form.params.projectTimeline - 1,
            annualRevenues |-> SliceTo(form.params.annualRevenues,
                                       form.params.projectTimeline - 1),
            operatingCosts |-> SliceTo(form.params.operatingCosts,
                                       form.params.projectTimeline - 1)])

\* onChange of the iterations select, disabled while isRunning.
SetIterations(n) ==
    /\ simulation.mounted
    /\ ~simulation.isRunning
    /\ simulation' = [simulation EXCEPT !.iterations = n]
    /\ UNCHANGED <<app, form, pendingRuns, engineVars>>

\* runSimulation up to its await: the button is disabled while isRunning;
\* the call keeps the parameters and iterations of the render it started in.
RunSimulation ==
    /\ simulation.mounted
    /\ ~simulation.isRunning
    /\ Len(pendingRuns) < MaxPending
    /\ simulation' = [simulation EXCEPT !.isRunning = TRUE]
    /\ pendingRuns' = Append(pendingRuns,
                             [parameters |-> app.parameters,
                              iterations |-> simulation.iterations,
                              mounted |-> TRUE])
    /\ UNCHANGED <<app, form, engineVars>>

\* runSimulation after its await: the oldest timer fires. setResults and
\* setIsRunning change nothing once the component of the call is gone.
TimerFires ==
    /\ pendingRuns # <<>>
    /\ pendingRuns' = Tail(pendingRuns)
    /\ simulation' =
           IF Head(pendingRuns).mounted
           THEN [simulation EXCEPT
                    !.results = SimulationResultsFor(
                                    Head(pendingRuns).parameters,
                                    Head(pendingRuns).iterations),
                    !.isRunning = FALSE]
           ELSE simulation
    /\ UNCHANGED <<app, form, engineVars>>

InitApp ==
    /\ AppMounted
    /\ EngineIdle

NextForm ==
    \/ \E tab \in Tabs : SetActiveTab(tab)
    \/ \E edit \in FieldEdits : EditField(edit[1], edit[2])
    \/ \E field \in {"annualRevenues", "operatingCosts"} :
           \E index \in 0..(MaxFormYears - 1) :
               \E text \in CellTexts : EditCell(field, index, text)
    \/ addYear
    \/ removeYear

SpecForm == InitApp /\ [][NextForm]_vars

NextSimulation ==
    \/ \E tab \in Tabs : SetActiveTab(tab)
    \/ \E edit \in InvestmentEdits : EditField(edit[1], edit[2])
    \/ \E n \in IterationOptions : SetIterations(n)
    \/ RunSimulation
    \/ TimerFires

SpecSimulation == InitApp /\ [][NextSimulation]_vars

-----------------------------------------------------------------------------
(* Claims about calculateMetrics and calculateFreeCashFlows (SpecMetrics)  *)

Returned == outcome.status = "returned"

\* freeCashFlows[y] of the code, for a year y in 1..projectTimeline
FlowOfYear(m, y) == m.freeCashFlows[y + 1]

\* C1: for every parameter set with projectTimeline >= 1, the returned
\* cumulativeCashFlows is as long as freeCashFlows and its entry i is the sum
\* of freeCashFlows[0..i], also after a prefix sum of exactly 0.
C1_CumulativeIsPrefixSum ==
    (Returned /\ params.projectTimeline >= 1) =>
        LET m == outcome.value
        IN  /\ Len(m.cumulativeCashFlows) = Len(m.freeCashFlows)
            /\ \A i \in 1..Len(m.freeCashFlows) :
                   m.cumulativeCashFlows[i] = SumUpTo(m.freeCashFlows, i)

\* A returned record whose running sum is exactly 0 before the last year and
\* moves away from 0 in the year after.
C1_Witness ==
    /\ Returned
    /\ params.projectTimeline >= 2
    /\ \E i \in 2..(Len(outcome.value.freeCashFlows) - 1) :
           /\ outcome.value.cumulativeCashFlows[i] = Zero
           /\ outcome.value.freeCashFlows[i + 1] # Zero
           /\ outcome.value.cumulativeCashFlows[i + 1] =
                  SumUpTo(outcome.value.freeCashFlows, i + 1)

\* C2: calculateMetrics fails with an InvalidParameterError, and returns no
\* metrics, whenever projectTimeline < 1 or a rate lies outside its domain.
C2_InvalidParametersRejected ==
    (outcome # NoCall /\ ~ValidParams(params)) =>
        outcome.status = "InvalidParameterError"

\* C3: for projectTimeline >= 1 freeCashFlows has projectTimeline + 1 entries
\* and entry 0 is -(initialInvestment + workingCapital).
C3_InitialOutlay ==
    (Returned /\ params.projectTimeline >= 1) =>
        /\ Len(outcome.value.freeCashFlows) = params.projectTimeline + 1
        /\ outcome.value.freeCashFlows[1] =
               Neg(Add(params.initialInvestment, params.workingCapital))

\* A returned record for a project with an outlay and a terminal recovery.
C3_Witness ==
    /\ Returned
    /\ params.projectTimeline >= 1
    /\ Add(params.terminalValue, params.workingCapital) # Zero
    /\ outcome.value.freeCashFlows[1] # Zero
    /\ outcome.value.freeCashFlows[1] =
           Neg(Add(params.initialInvestment, params.workingCapital))

\* The claim's ebit, tax and depreciation of year y.
ClaimDepreciation(p) == Mul(p.initialInvestment, p.depreciationRate)

ClaimEbit(p, y) ==
    Sub(Sub(ElemOrZero(p.annualRevenues, y - 1),
            ElemOrZero(p.operatingCosts, y - 1)),
        ClaimDepreciation(p))

ClaimTax(p, y) ==
    IF Gt(ClaimEbit(p, y), Zero) THEN Mul(ClaimEbit(p, y), p.taxRate) ELSE Zero

ClaimOperatingFlow(p, y) ==
    Add(Sub(ClaimEbit(p, y), ClaimTax(p, y)), ClaimDepreciation(p))

\* C4: for every year y in 1..projectTimeline, freeCashFlows[y] is
\* ebit - tax + depreciation, with tax = ebit * taxRate only when ebit > 0, and
\* the last year alone also holds terminalValue + workingCapital, once.
C4_YearlyFlows ==
    (Returned /\ params.projectTimeline >= 1) =>
        \A y \in 1..params.projectTimeline :
            FlowOfYear(outcome.value, y) =
                IF y = params.projectTimeline
                THEN Add(ClaimOperatingFlow(params, y),
                         Add(params.terminalValue, params.workingCapital))
                ELSE ClaimOperatingFlow(params, y)

\* A two-year project with a taxed profit in one year, a loss in the other
\* and a terminal recovery.
C4_Witness ==
    /\ Returned
    /\ params.projectTimeline = 2
    /\ Gt(params.taxRate, Zero)
    /\ Add(params.terminalValue, params.workingCapital) # Zero
    /\ Lt(ClaimEbit(params, 1), Zero)
    /\ Gt(ClaimEbit(params, 2), Zero)
    /\ FlowOfYear(outcome.value, 1) = ClaimOperatingFlow(params, 1)
    /\ FlowOfYear(outcome.value, 2) # ClaimOperatingFlow(params, 2)

\* C5: the concrete scenario yields freeCashFlows = [-100000, 80000],
\* cumulativeCashFlows = [-100000, -20000] and paybackPeriod = 2.
C5_ConcreteScenario ==
    (Returned /\ params = ScenarioParams) =>
        /\ outcome.value.freeCashFlows = <<Num(-100000), Num(80000)>>
        /\ outcome.value.cumulativeCashFlows = <<Num(-100000), Num(-20000)>>
        /\ outcome.value.paybackPeriod = Num(2)

\* The scenario's call has returned, with the net present value -300000/11.
C5_Witness ==
    /\ Returned
    /\ params = ScenarioParams
    /\ outcome.value.npv = Q(-300000, 11)
    /\ outcome.value.paybackPeriod = Num(Len(outcome.value.freeCashFlows))

\* arr followed by zeros up to length n (arr itself if it is not shorter).
ZeroPadded(arr, n) ==
    [k \in 1..(IF Len(arr) < n THEN n ELSE Len(arr)) |->
        IF k <= Len(arr) THEN arr[k] ELSE Zero]

PaddedParams(p) ==
    [p EXCEPT !.annualRevenues = ZeroPadded(@, p.projectTimeline),
              !.operatingCosts = ZeroPadded(@, p.projectTimeline)]

ShortSequences(p) ==
    \/ Len(p.annualRevenues) < p.projectTimeline
    \/ Len(p.operatingCosts) < p.projectTimeline

\* C11: when annualRevenues or operatingCosts has fewer than projectTimeline
\* entries, the call of calculateMetrics does not throw and returns the very
\* record (freeCashFlows, npv, irr, paybackPeriod, roi, ebitdaMargin and the
\* derived arrays) it returns for the sequences zero-padded to projectTimeline.
C11_ShortSequencesAsZeroPadded ==
    (outcome # NoCall /\ ShortSequences(params)) =>
        /\ Returned
        /\ outcome.value = calculateMetrics(PaddedParams(params))

\* A two-year project with one revenue entry and no cost entry, where the
\* padding is visible: the second year's flow is not the first year's.
C11_Witness ==
    /\ Returned
    /\ params.projectTimeline = 2
    /\ Len(params.annualRevenues) = 1
    /\ params.annualRevenues[1] # Zero
    /\ Len(params.operatingCosts) = 0
    /\ params.terminalValue = Zero
    /\ params.workingCapital = Zero
    /\ FlowOfYear(outcome.value, 2) # FlowOfYear(outcome.value, 1)
    /\ outcome.value.freeCashFlows =
           calculateMetrics(PaddedParams(params)).freeCashFlows

-----------------------------------------------------------------------------
(* Claims about calculatePaybackPeriod and calculateNPV (SpecFlows)        *)

\* The 0-based indices of flows at which the running sum is >= 0.
BreakEvenIndices(f) == {i \in 0..(Len(f) - 1) : Ge(SumUpTo(f, i + 1), Zero)}

FirstBreakEven(f) ==
    CHOOSE i \in BreakEvenIndices(f) : \A j \in BreakEvenIndices(f) : i <= j

\* C6: calculatePaybackPeriod(flows) is 0 if flows[0] >= 0; otherwise, with i
\* the first index whose running sum is >= 0, it is
\* (i-1) + |running sum at i-1| / flows[i], a value in (i-1, i] with flows[i]
\* positive; and it is flows.length (0 for the empty sequence) if no running
\* sum is >= 0.
C6_PaybackPeriod ==
    paybackCall.status = "returned" =>
        LET r == paybackCall.value
        IN  IF BreakEvenIndices(flows) = {} THEN r = Num(Len(flows))
            ELSE LET i == FirstBreakEven(flows)
                 IN  IF i = 0 THEN r = Zero
                     ELSE /\ r = Add(Num(i - 1),
                                     Div(MathAbs(SumUpTo(flows, i)), flows[i + 1]))
                          /\ Gt(flows[i + 1], Zero)
                          /\ Gt(r, Num(i - 1))
                          /\ Le(r, Num(i))

\* A sequence that breaks even within its third entry, between two years.
C6_Witness ==
    /\ paybackCall.status = "returned"
    /\ BreakEvenIndices(flows) # {}
    /\ FirstBreakEven(flows) = 2
    /\ Gt(paybackCall.value, Num(1))
    /\ Lt(paybackCall.value, Num(2))

\* C7: for any flow sequence f, the empty one included, calculateNPV(f, 0) is
\* the plain sum of f.
C7_NPVAtZeroIsSum ==
    (npvCall.status = "returned" /\ rateArg = Zero) =>
        npvCall.value = ReduceSum(flows)

\* A call at rate 0 on three entries with a non-zero sum.
C7_Witness ==
    /\ npvCall.status = "returned"
    /\ rateArg = Zero
    /\ Len(flows) = 3
    /\ flows[3] # Zero
    /\ npvCall.value # Zero
    /\ npvCall.value = ReduceSum(flows)

\* C10: calculateNPV never computes a result for a rate <= -1: such a rate is
\* rejected instead of a value being produced from a zero or negative base.
C10_RateAtOrBelowMinusOneGuarded ==
    (npvCall # NoCall /\ Le(rateArg, Num(-1))) => npvCall.status # "returned"

-----------------------------------------------------------------------------
(* Claims about calculateIRR (SpecIRR)                                     *)

\* C8: calculateIRR ends after at most 100 iterations and returns its rate:
\* early exactly when |f'(rate)| < 1e-7 at the returned rate (the guess 0.10
\* for all-zero or single-entry flows) or when the step from the returned rate
\* is below 1e-7, and otherwise the rate reached after the 100th update.
C8_IRRTerminates ==
    /\ irrI \in 0..maxIterations
    /\ irrPc \in {"idle", "loop", "done"}
    /\ irrPc = "done" =>
           /\ irrExit \in {"derivative", "step", "exhausted"}
           /\ irrExit = "derivative" <=>
                  (irrI < maxIterations /\ DerivativeBreak(irrFlows, irrRate))
           /\ irrExit = "step" <=>
                  /\ irrI < maxIterations
                  /\ ~DerivativeBreak(irrFlows, irrRate)
                  /\ StepBreak(irrFlows, irrRate)
           /\ irrExit = "exhausted" <=> irrI = maxIterations
           /\ ((\A k \in 2..Len(irrFlows) : irrFlows[k] = Zero) =>
                   irrI = 0 /\ irrRate = guess /\ irrExit = "derivative")

\* The loop has run all 100 updates on the oscillating sequence and returned.
C8_Witness ==
    /\ irrPc = "done"
    /\ irrExit = "exhausted"
    /\ irrI = maxIterations
    /\ IsFinite(irrRate)

\* One outflow at index 0, then only non-negative inflows, one at least positive.
SingleSignChange(f) ==
    /\ Len(f) >= 2
    /\ Lt(f[1], Zero)
    /\ \A k \in 2..Len(f) : Ge(f[k], Zero)
    /\ \E k \in 2..Len(f) : Gt(f[k], Zero)

\* C9: for a sequence with one outflow at index 0 followed only by
\* non-negative inflows, at least one positive, the returned rate r satisfies
\* |calculateNPV(f, r)| <= 1e-4.
C9_IRRZeroesNPV ==
    (irrPc = "done" /\ SingleSignChange(irrFlows)) =>
        Le(MathAbs(calculateNPV(irrFlows, irrRate)), Q(1, 10000))

\* Parameters of a project of one year within the documented domain.
SingleYearProjects ==
    [initialInvestment : {Num(10), Num(20)}, projectTimeline : {1},
     annualRevenues : {<<Num(0)>>, <<Num(11)>>},
     operatingCosts : {<<>>, <<Num(0)>>},
     taxRate : {Num(0)}, discountRate : {Q(1, 10)},
     depreciationRate : {Num(0)}, workingCapital : {Num(0)},
     terminalGrowthRate : {Num(0)}, terminalValue : {Num(0)}]

\* C22: for valid parameters with projectTimeline = 1 (or initialInvestment
\* = 0) no output field of calculateMetrics is NaN or infinite: the irr of
\* the record, which is what calculateIRR returns for the free cash flows of
\* the parameters, is a finite number.
C22_NoUndefinedOutput ==
    \A p \in SingleYearProjects :
        (irrPc = "done" /\ ValidParams(p)
            /\ irrFlows = calculateFreeCashFlows(p)) => IsFinite(irrRate)

-----------------------------------------------------------------------------
(* Claims about calculateScenarioAnalysis (SpecScenario)                   *)

NonNegative(arr) == \A k \in 1..Len(arr) : Ge(arr[k], Zero)

\* arr with every entry multiplied by factor.
Scaled(arr, factor) == [k \in 1..Len(arr) |-> Mul(arr[k], factor)]

ScenarioReturned == scenarioCall.status = "returned"

\* The three records of the result, their arrays read from the heap.
BestCase == LoadMetrics(heap, scenarioCall.value.bestCase)
BaseCase == LoadMetrics(heap, scenarioCall.value.baseCase)
WorstCase == LoadMetrics(heap, scenarioCall.value.worstCase)

\* C12: for valid parameters with non-negative revenues and costs, taxRate
\* and discountRate in [0, 1], the scenario analysis returns
\* bestCase.npv >= baseCase.npv >= worstCase.npv.
C12_ScenarioOrdering ==
    (/\ ScenarioReturned
     /\ ValidParams(params)
     /\ NonNegative(params.annualRevenues)
     /\ NonNegative(params.operatingCosts)) =>
        /\ Ge(BestCase.npv, BaseCase.npv)
        /\ Ge(BaseCase.npv, WorstCase.npv)

\* A valid two-year project, taxed in the base case, whose three net present
\* values differ.
C12_Witness ==
    /\ ScenarioReturned
    /\ ValidParams(params)
    /\ NonNegative(params.annualRevenues)
    /\ NonNegative(params.operatingCosts)
    /\ params.projectTimeline = 2
    /\ Gt(params.taxRate, Zero)
    /\ Gt(BestCase.npv, BaseCase.npv)
    /\ Gt(BaseCase.npv, WorstCase.npv)

\* C13: bestCase is calculateMetrics of the parameters with every revenue
\* times 1.2 and every cost times 0.9, worstCase that with every revenue times
\* 0.8 and every cost times 1.15, all other parameters as given, and baseCase
\* is calculateMetrics of the parameters as given.
C13_ScenarioParameters ==
    ScenarioReturned =>
        /\ BestCase = calculateMetrics(
               [params EXCEPT !.annualRevenues = Scaled(@, Q(12, 10)),
                              !.operatingCosts = Scaled(@, Q(9, 10))])
        /\ WorstCase = calculateMetrics(
               [params EXCEPT !.annualRevenues = Scaled(@, Q(8, 10)),
                              !.operatingCosts = Scaled(@, Q(115, 100))])
        /\ BaseCase = calculateMetrics(params)

\* A returned analysis of a project with revenues and costs in every year of
\* its timeline, where the three free cash flows of the last year differ.
C13_Witness ==
    /\ ScenarioReturned
    /\ params.projectTimeline = 2
    /\ Len(params.annualRevenues) = 2
    /\ Len(params.operatingCosts) = 2
    /\ BestCase.freeCashFlows[3] # BaseCase.freeCashFlows[3]
    /\ WorstCase.freeCashFlows[3] # BaseCase.freeCashFlows[3]
    /\ BaseCase = calculateMetrics(params)

-----------------------------------------------------------------------------
(* Claims about runMonteCarloSimulation (SpecMonteCarlo)                   *)

DefaultIterations == 1000

MonteCarloReturned == monteCarloCall.status = "returned"

\* The two arrays of the result, read from the heap.
NpvDistribution == heap[monteCarloCall.value.npvDistribution]

IrrDistribution == heap[monteCarloCall.value.irrDistribution]

Percentiles == monteCarloCall.value.npvPercentiles

\* The metrics of the parameters perturbed by the three random values rnd
\* holds for iteration i (counted from 1).
SampleMetrics(rnd, i) ==
    calculateMetrics(
        [params EXCEPT
            !.annualRevenues =
                Scaled(@, Add(Q(8, 10), Mul(rnd[3 * i - 2], Q(4, 10)))),
            !.operatingCosts =
                Scaled(@, Add(Q(85, 100), Mul(rnd[3 * i - 1], Q(3, 10)))),
            !.discountRate =
                Mul(@, Add(Q(9, 10), Mul(rnd[3 * i], Q(2, 10))))])

\* The net present values of the iterations of the call, in their order.
SampleNPVs == [i \in 1..iterations |-> SampleMetrics(randoms, i).npv]

\* C15: for N >= 1 iterations both distributions have exactly N entries, and
\* probabilityOfPositiveNPV is (number of iterations with npv > 0) / N, a
\* value in [0, 1].
C15_DistributionsAndProbability ==
    (MonteCarloReturned /\ iterations >= 1) =>
        /\ Len(NpvDistribution) = iterations
        /\ Len(IrrDistribution) = iterations
        /\ monteCarloCall.value.probabilityOfPositiveNPV =
               Q(Cardinality({i \in 1..iterations : Gt(SampleNPVs[i], Zero)}),
                 iterations)
        /\ InUnit(monteCarloCall.value.probabilityOfPositiveNPV)

\* Two iterations, one with a positive and one with a negative value.
C15_Witness ==
    /\ MonteCarloReturned
    /\ iterations = 2
    /\ Len(NpvDistribution) = 2
    /\ Lt(SampleNPVs[1], Zero)
    /\ Gt(SampleNPVs[2], Zero)
    /\ monteCarloCall.value.probabilityOfPositiveNPV = Q(1, 2)

PercentileLevels == <<Q(10, 100), Q(25, 100), Q(50, 100), Q(75, 100), Q(90, 100)>>

PercentileValues ==
    <<Percentiles.p10, Percentiles.p25, Percentiles.p50, Percentiles.p75,
      Percentiles.p90>>

\* seq is in ascending order.
Ascending(seq) == \A k \in 1..(Len(seq) - 1) : Le(seq[k], seq[k + 1])

\* C16: for N >= 1 iterations every percentile p_q is the entry at index
\* floor(N * q) of the samples in ascending order, that index lies in
\* 0..N-1 (for every N up to the default 1000 as well), and
\* p10 <= p25 <= p50 <= p75 <= p90.
C16_Percentiles ==
    /\ \A n \in 1..DefaultIterations : \A j \in 1..5 :
           /\ PercentileIndex(n, PercentileLevels[j]) \in 0..(n - 1)
           /\ PercentileLevels[j][2] * PercentileIndex(n, PercentileLevels[j])
                  <= n * PercentileLevels[j][1]
           /\ n * PercentileLevels[j][1]
                  < PercentileLevels[j][2]
                        * (PercentileIndex(n, PercentileLevels[j]) + 1)
    /\ (MonteCarloReturned /\ iterations >= 1) =>
           LET sorted == SortedUpTo(SampleNPVs, iterations)
           IN  /\ Ascending(sorted)
               /\ \A i \in 1..iterations :
                      Cardinality({k \in 1..iterations : sorted[k] = SampleNPVs[i]})
                          = Cardinality({k \in 1..iterations :
                                            SampleNPVs[k] = SampleNPVs[i]})
               /\ \A j \in 1..5 :
                      PercentileValues[j] =
                          sorted[PercentileIndex(iterations, PercentileLevels[j]) + 1]
               /\ Ascending(PercentileValues)

\* Two iterations with different values, the larger one run first: the low
\* percentiles take the smaller value and the high ones the larger.
C16_Witness ==
    /\ MonteCarloReturned
    /\ iterations = 2
    /\ Gt(SampleNPVs[1], SampleNPVs[2])
    /\ Percentiles.p10 = SampleNPVs[2]
    /\ Percentiles.p90 = SampleNPVs[1]

\* C17: the returned npvDistribution keeps the order of the iterations, so
\* that npvDistribution[i] and irrDistribution[i] are the npv and the irr of
\* iteration i.
C17_DistributionKeepsIterationOrder ==
    MonteCarloReturned =>
        \A i \in 1..iterations :
            /\ NpvDistribution[i] = SampleMetrics(randoms, i).npv
            /\ IrrDistribution[i] = SampleMetrics(randoms, i).irr

\* C18: two runs with the same parameters and the same number of iterations
\* (and the same seed, where one is accepted) return identical results: the
\* result of a call is the one every sequence of values of Math.random()
\* yields, iteration by iteration.
C18_SameArgumentsSameResult ==
    MonteCarloReturned =>
        \A rnd \in [1..(3 * iterations) -> RandomValues] :
            /\ \A i \in 1..iterations :
                   IrrDistribution[i] = SampleMetrics(rnd, i).irr
            /\ monteCarloCall.value.expectedNPV =
                   Div(ReduceSum([i \in 1..iterations |->
                                     SampleMetrics(rnd, i).npv]),
                       Num(iterations))

-----------------------------------------------------------------------------
(* Claims about generateFinancialReports (SpecReports)                     *)

ReportsReturned == reportsCall.status = "returned"

Reports == reportsCall.value

\* The sum, from 0 and in the order of the years, of a field over statements.
TotalOf(statements, field) ==
    ReduceSum([k \in 1..Len(statements) |-> statements[k][field]])

\* C19: for projectTimeline >= 1 the summary's totalAssets, totalLiabilities
\* and totalEquity are those fields of the last balance sheet, totalRevenue
\* and totalNetIncome are the sums over the income statements, and
\* cumulativeCashFlow is the sum of netCashFlow over the cash flow
\* statements, which is the last endingCashBalance minus workingCapital.
C19_SummaryOfReports ==
    (ReportsReturned /\ params.projectTimeline >= 1) =>
        LET n == params.projectTimeline
        IN  /\ Len(Reports.balanceSheets) = n
            /\ Len(Reports.incomeStatements) = n
            /\ Len(Reports.cashFlowStatements) = n
            /\ Reports.summary.totalAssets = Reports.balanceSheets[n].totalAssets
            /\ Reports.summary.totalLiabilities =
                   Reports.balanceSheets[n].totalLiabilities
            /\ Reports.summary.totalEquity = Reports.balanceSheets[n].totalEquity
            /\ Reports.summary.totalRevenue =
                   TotalOf(Reports.incomeStatements, "revenue")
            /\ Reports.summary.totalNetIncome =
                   TotalOf(Reports.incomeStatements, "netIncome")
            /\ Reports.summary.cumulativeCashFlow =
                   TotalOf(Reports.cashFlowStatements, "netCashFlow")
            /\ Reports.summary.cumulativeCashFlow =
                   Sub(Reports.cashFlowStatements[n].endingCashBalance,
                       params.workingCapital)

\* Reports over three years whose balance sheets differ from year to year and
\* whose cash balance starts from a working capital.
C19_Witness ==
    /\ ReportsReturned
    /\ params.projectTimeline = 3
    /\ params.workingCapital # Zero
    /\ Reports.balanceSheets[3].totalAssets # Reports.balanceSheets[1].totalAssets
    /\ Reports.balanceSheets[3].totalAssets # Reports.balanceSheets[2].totalAssets
    /\ Reports.balanceSheets[3].totalEquity # Reports.balanceSheets[1].totalEquity
    /\ Reports.summary.totalAssets = Reports.balanceSheets[3].totalAssets
    /\ Reports.summary.totalRevenue # Zero
    /\ Reports.summary.cumulativeCashFlow # Zero

\* C20: with projectTimeline >= 2 the cash flow statements have debtIssuance
\* 0.6 * initialInvestment in year 1 and 0 afterwards, and in every year
\* y >= 2 debtRepayment (0.6 * initialInvestment) / (projectTimeline - 1), so
\* that the repayments add up to the issuance of year 1.
C20_DebtSchedule ==
    (ReportsReturned /\ params.projectTimeline >= 2) =>
        LET statements == Reports.cashFlowStatements
            issuance == Mul(params.initialInvestment, Q(6, 10))
        IN  /\ statements[1].debtIssuance = issuance
            /\ \A y \in 2..params.projectTimeline :
                   /\ statements[y].debtIssuance = Zero
                   /\ statements[y].debtRepayment =
                          Div(issuance, Num(params.projectTimeline - 1))
            /\ TotalOf(statements, "debtRepayment") = issuance

\* revenue - cost - depreciation of year y: the net income of the balance
\* sheet and of the cash flow statement.
NetIncomeOfYear(y) ==
    Sub(Sub(ElemOrZero(params.annualRevenues, y - 1),
            ElemOrZero(params.operatingCosts, y - 1)),
        Mul(params.initialInvestment, params.depreciationRate))

\* C21: in every balance sheet currentRatio is totalCurrentAssets /
\* totalCurrentLiabilities unless totalCurrentLiabilities = 0 (then 0),
\* debtToEquityRatio is totalLiabilities / totalEquity unless totalEquity = 0
\* (then 0), and returnOnEquity is netIncome / totalEquity * 100 unless
\* totalEquity = 0 (then 0): the quotient is reported for a negative
\* totalEquity as well.
C21_BalanceSheetRatios ==
    ReportsReturned =>
        \A y \in 1..Len(Reports.balanceSheets) :
            LET sheet == Reports.balanceSheets[y]
            IN  /\ sheet.currentRatio =
                       IF sheet.totalCurrentLiabilities = Zero THEN Zero
                       ELSE Div(sheet.totalCurrentAssets,
                                sheet.totalCurrentLiabilities)
                /\ sheet.debtToEquityRatio =
                       IF sheet.totalEquity = Zero THEN Zero
                       ELSE Div(sheet.totalLiabilities, sheet.totalEquity)
                /\ sheet.returnOnEquity =
                       IF sheet.totalEquity = Zero THEN Zero
                       ELSE Mul(Div(NetIncomeOfYear(y), sheet.totalEquity),
                                Num(100))

-----------------------------------------------------------------------------
(* Claims about the caller's parameters and arrays (SpecEntryPoints)       *)

\* The caller's two arrays hold what they held before the first call.
CallerArraysAsGiven ==
    /\ Len(heap) >= 2
    /\ heap[1] = params.annualRevenues
    /\ heap[2] = params.operatingCosts

\* The references of the three arrays of a metrics record.
ArraysOf(m) == {m.freeCashFlows, m.cumulativeCashFlows, m.presentValues}

\* The three records of a scenario analysis hold nine arrays, none of them
\* one of the caller's.
ScenarioArraysApart ==
    LET v == scenarioCall.value
        all == ArraysOf(v.bestCase) \cup ArraysOf(v.baseCase)
                   \cup ArraysOf(v.worstCase)
    IN  /\ Cardinality(all) = 9
        /\ all \cap {CallerParams.annualRevenues, CallerParams.operatingCosts}
               = {}
        /\ all \subseteq 1..Len(heap)

\* C14: calculateMetrics, calculateScenarioAnalysis, runMonteCarloSimulation
\* and generateFinancialReports leave the caller's parameters object and its
\* annualRevenues and operatingCosts arrays as they were, and the three
\* records of a scenario analysis share no array with each other or with the
\* input.
C14_CallerParametersUntouched ==
    /\ [](CallerArraysAsGiven /\ (ScenarioReturned => ScenarioArraysApart))
    /\ [][/\ params' = params
          /\ heap'[1] = heap[1]
          /\ heap'[2] = heap[2]]_vars

\* All four entry points have returned, the simulation after two iterations,
\* and the caller's arrays are not empty.
C14_Witness ==
    /\ Returned
    /\ ScenarioReturned
    /\ MonteCarloReturned
    /\ ReportsReturned
    /\ iterations = 2
    /\ Len(params.annualRevenues) = 2
    /\ heap[1] = params.annualRevenues
    /\ heap[scenarioCall.value.bestCase.freeCashFlows] #
           heap[scenarioCall.value.baseCase.freeCashFlows]

-----------------------------------------------------------------------------
(* Claims about the statements of generateFinancialReports (SpecReports)   *)

\* C24: in the cash flow statements the first year's beginningCashBalance is
\* workingCapital, every year's endingCashBalance is beginningCashBalance +
\* netOperatingCashFlow + netInvestingCashFlow + netFinancingCashFlow, and
\* the beginningCashBalance of year y + 1 is the endingCashBalance of year y.
C24_CashBalanceChain ==
    ReportsReturned =>
        LET statements == Reports.cashFlowStatements
        IN  /\ Len(statements) >= 1 =>
                   statements[1].beginningCashBalance = params.workingCapital
            /\ \A y \in 1..Len(statements) :
                   statements[y].endingCashBalance =
                       Add(Add(Add(statements[y].beginningCashBalance,
                                   statements[y].netOperatingCashFlow),
                               statements[y].netInvestingCashFlow),
                           statements[y].netFinancingCashFlow)
            /\ \A y \in 1..(Len(statements) - 1) :
                   statements[y + 1].beginningCashBalance =
                       statements[y].endingCashBalance

\* Three years from a working capital that is not 0, the balance moving in
\* every year.
C24_Witness ==
    /\ ReportsReturned
    /\ params.projectTimeline = 3
    /\ params.workingCapital # Zero
    /\ Reports.cashFlowStatements[1].endingCashBalance # params.workingCapital
    /\ Reports.cashFlowStatements[2].endingCashBalance #
           Reports.cashFlowStatements[1].endingCashBalance
    /\ Reports.cashFlowStatements[3].beginningCashBalance =
           Reports.cashFlowStatements[2].endingCashBalance
    /\ Reports.cashFlowStatements[3].endingCashBalance #
           Reports.cashFlowStatements[2].endingCashBalance

\* revenue - cost of the years 1..y, added up from 0.
RECURSIVE MarginUpTo(_)
MarginUpTo(y) ==
    IF y = 0 THEN Zero
    ELSE Add(MarginUpTo(y - 1),
             Sub(ElemOrZero(params.annualRevenues, y - 1),
                 ElemOrZero(params.operatingCosts, y - 1)))

\* C25: in the balance sheet of year y retainedEarnings is the sum over
\* k <= y of revenue_k - cost_k - depreciation, accumulatedDepreciation is
\* y * initialInvestment * depreciationRate without a cap at
\* initialInvestment (netPPE may be negative), cashAndEquivalents is
\* workingCapital + the sum over k <= y of revenue_k - cost_k, and
\* longTermDebt and commonStock are 60% and 40% of initialInvestment.
C25_BalanceSheetAccumulators ==
    ReportsReturned =>
        \A y \in 1..Len(Reports.balanceSheets) :
            LET sheet == Reports.balanceSheets[y]
                depreciation ==
                    Mul(params.initialInvestment, params.depreciationRate)
            IN  /\ sheet.retainedEarnings =
                       Sub(MarginUpTo(y), Mul(Num(y), depreciation))
                /\ sheet.accumulatedDepreciation = Mul(Num(y), depreciation)
                /\ sheet.netPPE =
                       Sub(params.initialInvestment, Mul(Num(y), depreciation))
                /\ sheet.cashAndEquivalents =
                       Add(params.workingCapital, MarginUpTo(y))
                /\ sheet.longTermDebt = Mul(params.initialInvestment, Q(6, 10))
                /\ sheet.commonStock = Mul(params.initialInvestment, Q(4, 10))

\* Three years at a depreciation rate of 1/2: the accumulated depreciation
\* exceeds the investment and netPPE is negative.
C25_Witness ==
    /\ ReportsReturned
    /\ params.projectTimeline = 3
    /\ params.workingCapital # Zero
    /\ Gt(Reports.balanceSheets[3].accumulatedDepreciation,
          params.initialInvestment)
    /\ Lt(Reports.balanceSheets[3].netPPE, Zero)
    /\ Reports.balanceSheets[3].retainedEarnings #
           Reports.balanceSheets[2].retainedEarnings
    /\ Reports.balanceSheets[2].cashAndEquivalents #
           Reports.balanceSheets[1].cashAndEquivalents

\* C26: in every year the income statement has interestExpense = 0.1 *
\* initialInvestment, ebt = ebit - interestExpense, taxExpense = max(ebt, 0)
\* * taxRate and netIncome = ebt - taxExpense; the cash flow statement's
\* netIncome is the income statement's ebit = revenue - cost - depreciation;
\* so for valid parameters the income statement's netIncome is at most the
\* cash flow statement's, and both margins are 0 when revenue is 0.
C26_TwoNetIncomes ==
    (ReportsReturned /\ ValidParams(params)
        /\ Ge(params.initialInvestment, Zero)) =>
        /\ Len(Reports.incomeStatements) = params.projectTimeline
        /\ Len(Reports.cashFlowStatements) = params.projectTimeline
        /\ \A y \in 1..params.projectTimeline :
               LET income == Reports.incomeStatements[y]
                   cash == Reports.cashFlowStatements[y]
               IN  /\ income.interestExpense =
                          Mul(params.initialInvestment, Q(1, 10))
                   /\ income.ebit = NetIncomeOfYear(y)
                   /\ income.ebt = Sub(income.ebit, income.interestExpense)
                   /\ income.taxExpense =
                          Mul(IF Gt(income.ebt, Zero) THEN income.ebt ELSE Zero,
                              params.taxRate)
                   /\ income.netIncome = Sub(income.ebt, income.taxExpense)
                   /\ cash.netIncome = income.ebit
                   /\ Le(income.netIncome, cash.netIncome)
                   /\ income.revenue = Zero =>
                          /\ income.ebitdaMargin = Zero
                          /\ income.netProfitMargin = Zero

\* A year with a loss before tax and no revenue, and a year with a taxed
\* profit, the two net incomes differing in both.
C26_Witness ==
    /\ ReportsReturned
    /\ params.projectTimeline >= 2
    /\ \E y \in 1..params.projectTimeline :
           /\ Lt(Reports.incomeStatements[y].ebt, Zero)
           /\ Reports.incomeStatements[y].revenue = Zero
           /\ Reports.incomeStatements[y].taxExpense = Zero
           /\ Lt(Reports.incomeStatements[y].netIncome,
                 Reports.cashFlowStatements[y].netIncome)
    /\ \E y \in 1..params.projectTimeline :
           /\ Gt(Reports.incomeStatements[y].taxExpense, Zero)
           /\ Lt(Reports.incomeStatements[y].netIncome,
                 Reports.cashFlowStatements[y].netIncome)

-----------------------------------------------------------------------------
(* Claims about presentValues (SpecMetrics)                                *)

\* C27: presentValues is as long as freeCashFlows and its entry i is
\* freeCashFlows[i] / (1 + discountRate)^i; so presentValues[0] is
\* freeCashFlows[0] for any discount rate, and the sum of presentValues is
\* npv.
C27_PresentValues ==
    Returned =>
        LET m == outcome.value
        IN  /\ Len(m.presentValues) = Len(m.freeCashFlows)
            /\ \A k \in 1..Len(m.freeCashFlows) :
                   m.presentValues[k] =
                       Div(m.freeCashFlows[k],
                           MathPow(Add(Num(1), params.discountRate), k - 1))
            /\ m.presentValues[1] = m.freeCashFlows[1]
            /\ ReduceSum(m.presentValues) = m.npv

\* Two years discounted at a rate that is not 0: the first entry is the
\* outlay itself, the later entries differ from their flows.
C27_Witness ==
    /\ Returned
    /\ params.projectTimeline = 2
    /\ params.discountRate # Zero
    /\ outcome.value.presentValues[1] = outcome.value.freeCashFlows[1]
    /\ outcome.value.freeCashFlows[1] # Zero
    /\ outcome.value.presentValues[2] # outcome.value.freeCashFlows[2]
    /\ outcome.value.presentValues[3] # outcome.value.freeCashFlows[3]
    /\ ReduceSum(outcome.value.presentValues) = outcome.value.npv

-----------------------------------------------------------------------------
(* Claims about App and ParametersForm (SpecForm)                          *)

\* What the validation of ParametersForm accepts: the three rates in [0,1],
\* projectTimeline in 1..20, and no error key at all.
PassedValidation(p) ==
    /\ InUnit(p.discountRate)
    /\ InUnit(p.taxRate)
    /\ InUnit(p.depreciationRate)
    /\ p.projectTimeline \in 1..20
    /\ ValidationErrorsOf(p) = {}

\* C23: every parameters value that ParametersForm hands to App, and that
\* App's effect passes to calculateMetrics and calculateScenarioAnalysis,
\* has passed the form's validation: discountRate, taxRate and
\* depreciationRate in [0,1], projectTimeline in 1..20, no error flagged.
C23_EngineParametersValidated ==
    [][app'.parameters # app.parameters =>
          /\ app'.metrics = MetricsFor(app'.parameters)
          /\ app'.scenarios = ScenariosFor(app'.parameters)
          /\ PassedValidation(app'.metrics.parameters)]_vars

\* C28: whenever ParametersForm is mounted, the params it displays are the
\* parameters App holds, also after leaving the Parameters tab and
\* returning to it.
C28_FormShowsAppParameters ==
    form.mounted => form.params = app.parameters

\* C29: after any sequence of addYear, removeYear, edits of the Project
\* Timeline field and edits of revenue or cost cells, annualRevenues and
\* operatingCosts hold no more entries than projectTimeline, and
\* projectTimeline has not been taken below 1 by removeYear.
C29_ArraysWithinTimeline ==
    /\ Len(app.parameters.annualRevenues) <= app.parameters.projectTimeline
    /\ Len(app.parameters.operatingCosts) <= app.parameters.projectTimeline

-----------------------------------------------------------------------------
(* Claims about MonteCarloSimulation (SpecSimulation)                      *)

\* C30: a run of MonteCarloSimulation starts only while isRunning is false,
\* and when the timer of a started run fires the component stores the
\* results of runMonteCarloSimulation on the parameters and iterations the
\* run was started with and sets isRunning back to false.
C30_StartedRunStoresResults ==
    [][/\ (Len(pendingRuns') > Len(pendingRuns) => ~simulation.isRunning)
       /\ (Len(pendingRuns') < Len(pendingRuns) =>
              /\ simulation'.mounted
              /\ simulation'.results =
                     SimulationResultsFor(Head(pendingRuns).parameters,
                                          Head(pendingRuns).iterations)
              /\ ~simulation'.isRunning)]_vars

=============================================================================
